---- MODULE Spec2Model ----
(***************************************************************************)
(* Model of the CUDA device of Cycles (CUDADevice): buffer and texture     *)
(* allocation with fallback to mapped host memory, eviction of textures to *)
(* host memory, and resolution of the kernel binary.                       *)
(*                                                                         *)
(* Memory is counted in abstract units.  A handler is one action; the      *)
(* calls it makes (eviction, re-allocation of evicted textures, upload of  *)
(* the texture-info table) are part of the same action and are computed by *)
(* operators over a record S holding the program state.                    *)
(***************************************************************************)
EXTENDS Integers, Sequences, FiniteSets, TLC

\* ------------------------------------------------------------------ bounds
NDev == 2                   \* CUDA devices sharing the descriptors
NMem == 3                   \* caller-owned descriptors
DevTotal == 13              \* device memory of each device, in units
LowLoad == 3                \* device memory held by other processes
HighLoad == 10
MaxOps == 3                 \* requests of the caller in a run
MaxReq == 2                 \* compile_kernel requests in a run

Dev == 1..NDev
Mem == 1..NMem
TI(d) == NMem + d           \* the texture_info descriptor owned by device d
Obj == 1..(NMem + NDev)

\* ------------------------------------------------------- program constants
\* Headroom kept free in device memory, scaled to units (32MB : 128MB).
WorkingHeadroom == 1
TextureHeadroom == 2
\* default_limit of init_host_memory (4GB), scaled to units.
DefaultLimit == 4
\* Slots added to the texture-info table on a resize.
SlotChunk == 128
\* Bytes of one TextureInfo slot table after its single resize, in units.
TexInfoUnits == 2
\* CU_DEVICE_ATTRIBUTE_TEXTURE_PITCH_ALIGNMENT of the devices, in units.
PitchAlignment == 2

\* pointer values
NULL == 0
DEVPTR == 1                 \* linear device memory from cuMemAlloc
MAPPED == 2                 \* device address of a pinned host region
ARRAYPTR == 3               \* CUarray handle of a 3D texture
CALLER == 1                 \* host buffer from device_memory::host_alloc
PINNED == 2                 \* host region pinned by cuMemHostAlloc

\* Shapes a descriptor can have: type tag, bytes per row, rows, slices.
ShapeList ==
  << [type |-> "MEM_READ_WRITE", w |-> 9, h |-> 0, depth |-> 0, nanovdb |-> FALSE],
     [type |-> "MEM_GLOBAL",     w |-> 5, h |-> 0, depth |-> 0, nanovdb |-> FALSE],
     [type |-> "MEM_TEXTURE",    w |-> 1, h |-> 2, depth |-> 0, nanovdb |-> FALSE],
     [type |-> "MEM_TEXTURE",    w |-> 2, h |-> 3, depth |-> 0, nanovdb |-> FALSE],
     [type |-> "MEM_TEXTURE",    w |-> 3, h |-> 0, depth |-> 0, nanovdb |-> TRUE],
     [type |-> "MEM_TEXTURE",    w |-> 1, h |-> 2, depth |-> 2, nanovdb |-> FALSE],
     [type |-> "MEM_READ_WRITE", w |-> 3, h |-> 0, depth |-> 0, nanovdb |-> FALSE],
     [type |-> "MEM_READ_WRITE", w |-> 5, h |-> 0, depth |-> 0, nanovdb |-> FALSE] >>

\* System RAM sizes init_host_memory is run on, in units.
SmallRam == 6
LargeRam == 14
MaxRam == 12                \* largest system RAM init_host_memory is checked on

\* The machines the model is run on: whether the devices form a peer island,
\* whether every device can map host memory (device 1 always can), the
\* system RAM, and whether other processes hold device memory.
PlainMachine  == [island |-> FALSE, map_all |-> TRUE,  ram |-> LargeRam, load |-> FALSE]
SmallMachine  == [island |-> FALSE, map_all |-> FALSE, ram |-> SmallRam, load |-> TRUE]
IslandMachine == [island |-> TRUE,  map_all |-> TRUE,  ram |-> LargeRam, load |-> FALSE]

\* The scenes the model is run on: the shapes of the descriptors, in order,
\* and the machine.
Scenes ==
  { [w |-> <<1, 2, 3>>, k |-> PlainMachine],
    [w |-> <<2, 3, 4>>, k |-> PlainMachine],
    [w |-> <<1, 2, 3>>, k |-> SmallMachine],
    [w |-> <<1, 3, 4>>, k |-> SmallMachine],
    [w |-> <<5, 6, 4>>, k |-> SmallMachine],
    [w |-> <<2, 6, 1>>, k |-> SmallMachine],
    [w |-> <<5, 2, 3>>, k |-> SmallMachine],
    [w |-> <<3, 7, 5>>, k |-> SmallMachine],
    [w |-> <<1, 2, 3>>, k |-> IslandMachine],
    [w |-> <<1, 3, 4>>, k |-> IslandMachine],
    [w |-> <<2, 3, 4>>, k |-> IslandMachine],
    [w |-> <<5, 6, 4>>, k |-> IslandMachine],
    [w |-> <<4, 3, 8>>, k |-> IslandMachine] }

VARIABLES
  \* configuration, fixed after construction
  shape,                \* [Mem -> Shapes]
  island,               \* TRUE: the devices form one peer island
  owner,                \* [Mem -> Dev] device owning the memory in an island
  can_map_host,         \* [Dev -> BOOLEAN]
  pitch_alignment,      \* [Dev -> Nat]
  map_host_limit,       \* [Dev -> Nat]
  system_ram,           \* what system_physical_ram() returns, in units
  cu_other,             \* [Dev -> Nat] device memory held by other processes
  multi,                \* the request in progress on the devices
  \* descriptors (device_memory); device_pointer and device_size as each
  \* device sees them
  device_pointer,       \* [Dev -> [Obj -> pointer]]
  device_size,          \* [Dev -> [Obj -> Nat]]
  host_pointer,         \* [Obj -> pointer]
  shared_pointer,       \* [Obj -> pointer]
  shared_counter,       \* [Obj -> Int]
  texture_info_size,    \* [Dev -> Nat] slots of texture_info
  \* CUDADevice
  cuda_mem_map,         \* [Dev -> [tracked Obj -> CUDAMem]]
  map_host_used,        \* [Dev -> Int]
  move_texture_to_host, \* [Dev -> BOOLEAN]
  need_texture_info,    \* [Dev -> BOOLEAN]
  any_device_moving_textures_to_host,
  error,                \* [Dev -> BOOLEAN] Device::have_error()
  stats,                \* Stats::mem_used of the Stats the devices share
  \* driver
  cu_mem,               \* [Dev -> [Obj -> Nat]] device memory behind a pointer
  pinned,               \* [Obj -> BOOLEAN] pinned host region is allocated
  cu_lost,              \* [Dev -> Nat] device memory whose pointer was overwritten
  \* what the last handler did
  last,
  nops,                 \* requests so far
  \* kernel binary
  major,                \* CU_DEVICE_ATTRIBUTE_COMPUTE_CAPABILITY_MAJOR
  minor,                \* CU_DEVICE_ATTRIBUTE_COMPUTE_CAPABILITY_MINOR
  files,                \* the files that exist in lib/ and in the kernel cache
  kernel_last,          \* what the last compile_kernel did
  nreq,                 \* compile_kernel, load_kernels and check_peer_access calls
  \* device and driver contexts
  cuContext,            \* [Dev -> context handle, 0 if none]
  cuModule,             \* [Dev -> module handle, 0 if none]
  peer_access,          \* pairs <<a, b>>: context a has access to context b
  ctx_stack,            \* the calling thread's stack of current contexts
  \* threads in move_textures_to_host, one for each device
  thread,               \* [Dev -> [pc, size, for_texture, max]]
  move_mutex,           \* 0: free, else the device whose thread holds it
  cuda_mem_map_mutex,   \* [Dev -> 0: free, else the device whose thread holds it]
  \* the render passes of an EEVEE instance
  render_passes,        \* RenderPasses and the range-for loop that runs on it
  \* the curve pen operator
  pen                   \* CURVE_OT_pen: its properties and its modal handler

cfgvars == <<shape, island, owner, can_map_host, pitch_alignment, map_host_limit,
             cu_other, system_ram>>
memvars == <<device_pointer, device_size, host_pointer, shared_pointer, shared_counter,
             texture_info_size, cuda_mem_map, map_host_used, move_texture_to_host,
             need_texture_info, any_device_moving_textures_to_host, error, cu_mem,
             pinned, multi, last, nops, ctx_stack, stats, cu_lost>>
kvars == <<major, minor, files, kernel_last, nreq>>
devvars == <<cuContext, cuModule, peer_access>>
evictvars == <<thread, move_mutex, cuda_mem_map_mutex>>
edvars == <<render_passes, pen>>
vars == <<cfgvars, memvars, kvars, devvars, evictvars, edvars>>

\* ------------------------------------------------------------ descriptors
Max(a, b) == IF a > b THEN a ELSE b

\* device_memory::memory_size(): bytes of the logical content.
memory_size(S, o) ==
  IF o \in Mem
    THEN shape[o].w * Max(shape[o].h, 1) * Max(shape[o].depth, 1)
    ELSE IF S.texture_info_size[o - NMem] = 0 THEN 0 ELSE TexInfoUnits

MemType(o) == IF o \in Mem THEN shape[o].type ELSE "MEM_GLOBAL"
data_height(o) == IF o \in Mem THEN shape[o].h ELSE 0
data_depth_flat(o) == 0
data_depth(o) == IF o \in Mem THEN shape[o].depth ELSE 0
data_width(o) == IF o \in Mem THEN shape[o].w ELSE TexInfoUnits
slot(o) == o - 1

\* device_memory::is_resident(device): in a peer island only the owner of
\* the memory holds it; texture_info belongs to its own device.
is_resident(d, o) == IF o \in Mem THEN (~island \/ owner[o] = d) ELSE o = TI(d)

\* The descriptor as device d is handed it: a device of a peer island that
\* does not own the memory sees the owner's pointer and size.
Holder(d, o) == IF is_resident(d, o) \/ o \notin Mem THEN d ELSE owner[o]
Ptr(S, d, o) == S.device_pointer[Holder(d, o)][o]
DSize(S, d, o) == S.device_size[Holder(d, o)][o]

align_down(offset, alignment) == (offset \div alignment) * alignment

\* align_up(offset, alignment) for a power-of-two alignment.
align_up(offset, alignment) == ((offset + alignment - 1) \div alignment) * alignment

\* ------------------------------------------------------------- CUDAMem map
NewCUDAMem == [texobject |-> FALSE, array |-> FALSE, use_mapped_host |-> FALSE]

Tracked(S, d, o) == o \in DOMAIN S.cuda_mem_map[d]
\* cuda_mem_map[&mem]: std::map::operator[] inserts a default record.
MapGet(S, d, o) == IF Tracked(S, d, o) THEN S.cuda_mem_map[d][o] ELSE NewCUDAMem
Log(S, e) == [S EXCEPT !.log = Append(@, e)]

\* thread_scoped_lock lock(cuda_mem_map_mutex): the calling thread takes the
\* map mutex of device d.  The mutex is not recursive: taking it while
\* holding it is recorded.
lock(S, d, site) ==
  IF S.held[d]
    THEN Log(S, [ev |-> "relock", dev |-> d, site |-> site])
    ELSE [S EXCEPT !.held[d] = TRUE, !.ops = 0]

\* lock.unlock(), or the end of the scope of the lock.
unlock(S, d, site) ==
  Log([S EXCEPT !.held[d] = FALSE, !.ops = 0],
      [ev |-> "unlock", dev |-> d, site |-> site, held |-> S.held[d],
       ops |-> S.ops, at |-> Len(S.log) + 1])

\* A lock that is kept where the code releases it early.
lock_kept(S, d, site) == S

\* lock.unlock() before the end of the scope.
lock_unlock(S, d, site) == unlock(S, d, site)

\* A lookup, insert or erase on cuda_mem_map of device d.
Touch(S, d) ==
  IF S.held[d] THEN [S EXCEPT !.ops = @ + 1]
  ELSE Log(S, [ev |-> "bare", dev |-> d])

MapPut(S, d, o, cmem) ==
  Touch([S EXCEPT !.cuda_mem_map[d] =
           [x \in (DOMAIN S.cuda_mem_map[d]) \cup {o} |->
              IF x = o THEN cmem ELSE S.cuda_mem_map[d][x]]], d)
MapEraseNothing(S, d, o) == S

\* cuda_mem_map.erase(cuda_mem_map.find(&mem))
MapErase(S, d, o) ==
  Touch([S EXCEPT !.cuda_mem_map[d] =
           [x \in (DOMAIN S.cuda_mem_map[d]) \ {o} |-> S.cuda_mem_map[d][x]]], d)

\* ------------------------------------------------------------------ driver
\* cuMemGetInfo: free device memory.
RECURSIVE SumMem(_, _, _)
SumMem(S, d, i) == IF i = 0 THEN 0 ELSE S.cu_mem[d][i] + SumMem(S, d, i - 1)
cuMemGetInfo(S, d) ==
  DevTotal - cu_other[d] - SumMem(S, d, NMem + NDev) - S.cu_lost[d]

set_error_dropped(S, d) == S

\* Device::set_error
set_error(S, d) == [S EXCEPT !.error[d] = TRUE]


\* ----------------------------------------------------------- context scope
cuCtxPushCurrent(S, ctx) == [S EXCEPT !.ctx = Append(@, ctx)]

cuCtxPopNothing(S) == S

cuCtxPopCurrent(S) ==
  [S EXCEPT !.ctx = IF @ = <<>> THEN @ ELSE SubSeq(@, 1, Len(@) - 1)]

\* CUDAContextScope: the constructor makes the context of the device
\* current, the destructor restores the context that was current.
ScopeEnter(S, d) == cuCtxPushCurrent(S, S.cuContext[d])
ScopeLeave(S) == cuCtxPopCurrent(S)

\* Sequencing: the state S is computed, then Step is applied to it.
Run(S, Step(_)) == CHOOSE r \in {Step(R) : R \in {S}} : TRUE

\* Every byte of the system RAM may be pinned.
init_host_memory_all(ram) == ram

\* init_host_memory: limit of mapped host memory for a given system RAM.
init_host_memory(ram) ==
  IF ram > 0
    THEN IF ram \div 2 > DefaultLimit
           THEN ram - DefaultLimit
           ELSE ram \div 2
    ELSE 0

Headroom(d, is_texture) ==
  IF ~can_map_host[d] THEN 0
  ELSE IF is_texture THEN TextureHeadroom ELSE WorkingHeadroom

\* ----------------------------------------------------------------- eviction
IsTexture(d, o) == MemType(o) \in {"MEM_TEXTURE", "MEM_GLOBAL"} /\ o # TI(d)
IsImage(d, o) == IsTexture(d, o) /\ data_height(o) > 1

EligibleArrays(S, d, o, for_texture) ==
  /\ Tracked(S, d, o)
  /\ is_resident(d, o)
  /\ ~S.cuda_mem_map[d][o].use_mapped_host
  /\ IsTexture(d, o)
  /\ (for_texture => IsImage(d, o))

\* The allocations move_textures_to_host may move: tracked by this device,
\* resident on it, in device memory, a texture or global that is not backed
\* by an array; only images when moving on behalf of a texture.
Eligible(S, d, o, for_texture) ==
  /\ Tracked(S, d, o)
  /\ is_resident(d, o)
  /\ ~S.cuda_mem_map[d][o].use_mapped_host
  /\ IsTexture(d, o)
  /\ ~S.cuda_mem_map[d][o].array
  /\ (for_texture => IsImage(d, o))

NoMax == [mem |-> NULL, size |-> 0, image |-> FALSE]

BetterBySizeOnly(is_image, size, max) == size > max.size

\* One step of the scan: does allocation o replace the best found so far.
Better(is_image, size, max) ==
  (is_image /\ ~max.image) \/ (is_image = max.image /\ size > max.size)

\* The scan of cuda_mem_map for the allocation to move, in key order.
RECURSIVE ScanMax(_, _, _, _, _)
ScanMax(S, d, for_texture, i, max) ==
  IF i > NMem + NDev THEN max
  ELSE IF Eligible(S, d, i, for_texture) /\ Better(IsImage(d, i), DSize(S, d, i), max)
         THEN ScanMax(S, d, for_texture, i + 1,
                      [mem |-> i, size |-> DSize(S, d, i), image |-> IsImage(d, i)])
         ELSE ScanMax(S, d, for_texture, i + 1, max)

RECURSIVE generic_alloc(_, _, _, _)
RECURSIVE move_textures_to_host(_, _, _, _)
RECURSIVE MoveLoop(_, _, _, _)
RECURSIVE device_copy_to(_, _, _)
RECURSIVE mem_copy_to(_, _, _)
RECURSIVE tex_alloc(_, _, _)
RECURSIVE global_alloc(_, _, _)
RECURSIVE load_texture_info(_, _)

\* A flush that also uploads whenever it is not nested in another flush.
FlushAtTopLevel(S, d) == S.need_texture_info[d] \/ S.flushes = 0

\* if (need_texture_info)
FlushNeeded(S, d) == S.need_texture_info[d]

\* load_texture_info: upload the slot table if it is marked dirty.  The flag
\* is unset before texture_info.copy_to_device().
load_texture_info(S0, d) ==
  Run(S0, LAMBDA S :
    Run(IF FlushNeeded(S, d)
          THEN [mem_copy_to([S EXCEPT !.need_texture_info[d] = FALSE,
                                      !.flushes = @ + 1], d, TI(d))
                  EXCEPT !.flushes = S.flushes]
          ELSE S,
        LAMBDA S2 :
          Log(S2, [ev |-> "flush", dev |-> d, dirty |-> S.need_texture_info[d],
                   depth |-> S.flushes, at |-> Len(S.log) + 1,
                   moving |-> S.move_texture_to_host[d],
                   uploaded |-> \E j \in (Len(S.log) + 1)..Len(S2.log) :
                                  /\ S2.log[j].ev = "copy"
                                  /\ S2.log[j].dev = d
                                  /\ S2.log[j].mem = TI(d),
                   table |-> Ptr(S2, d, TI(d)),
                   host |-> S2.host_pointer[TI(d)],
                   realloc |-> \E j \in (Len(S.log) + 1)..Len(S2.log) :
                                 /\ S2.log[j].ev = "alloc"
                                 /\ S2.log[j].dev = d
                                 /\ S2.log[j].mem = TI(d)
                                 /\ ~S2.log[j].moving,
                   same |-> [S2 EXCEPT !.log = S.log] = S])))

\* The size_t width of the model, and size - max_size computed without the
\* comparison.
SizeMax == 64
SizeLeftWraps(size, max_size) == (size - max_size) % SizeMax

\* size = (max_size >= size) ? 0 : size - max_size;
SizeLeft(size, max_size) == IF max_size >= size THEN 0 ELSE size - max_size

\* The allocations of device d that move_textures_to_host may move.
Candidates(S, d, for_texture) == {o \in Obj : Eligible(S, d, o, for_texture)}

\* The loop is left with size still to free.
LoopExit(S, d, size, for_texture) ==
  Log(S, [ev |-> "loop_exit", dev |-> d, call |-> S.call, remaining |-> size,
          candidates |-> Candidates(S, d, for_texture)])

\* The while loop of move_textures_to_host.
MoveLoop(S0, d, size, for_texture) ==
  IF size = 0 THEN LoopExit(S0, d, size, for_texture)
  ELSE Run(lock_unlock(Touch(lock(S0, d, "scan"), d), d, "scan"), LAMBDA S :
         Run(ScanMax(S, d, for_texture, 1, NoMax), LAMBDA max :
           IF max.mem = NULL THEN LoopExit(S, d, size, for_texture)
           ELSE LET S1 == Log([S EXCEPT !.any_device_moving_textures_to_host = TRUE,
                                        !.moves = @ + 1],
                              [ev |-> "move", dev |-> d, mem |-> max.mem,
                               size |-> max.size, image |-> max.image,
                               for_texture |-> for_texture,
                               nesting |-> S.moves + 1, remaining |-> size,
                               call |-> S.call,
                               map |-> S.cuda_mem_map[d],
                               candidates |-> Candidates(S, d, for_texture),
                               eligible |-> {[mem |-> o, size |-> DSize(S, d, o),
                                              image |-> IsImage(d, o)] :
                                             o \in {x \in Obj : Eligible(S, d, x, for_texture)}}])
                IN MoveLoop([device_copy_to(S1, d, max.mem)
                               EXCEPT !.any_device_moving_textures_to_host = FALSE,
                                      !.moves = @ - 1, !.call = S.call],
                            d, SizeLeft(size, max.size), for_texture)))

\* The moves recorded in a log.
CountMoves(log) == Len(SelectSeq(log, LAMBDA e : e.ev = "move"))

GuardOff(S) == FALSE

\* if (any_device_moving_textures_to_host) return;
Guarded(S) == S.any_device_moving_textures_to_host

\* The flag left set when the table is reloaded.
KeepMoving(S, d) == S

\* move_texture_to_host = false, before the texture info is reloaded.
ResetMoving(S, d) == [S EXCEPT !.move_texture_to_host[d] = FALSE]

move_textures_to_host(S0, d, size, for_texture) ==
  Run(S0, LAMBDA S :
    Run(IF Guarded(S) THEN S
        ELSE load_texture_info(
               ResetMoving(
                 [MoveLoop([S EXCEPT !.move_texture_to_host[d] = TRUE,
                                     !.call = Len(S.log) + 1], d, size, for_texture)
                    EXCEPT !.call = S.call], d), d),
        LAMBDA S2 :
          Log(S2, [ev |-> "evict", dev |-> d, size |-> size,
                   for_texture |-> for_texture,
                   guard |-> S.any_device_moving_textures_to_host,
                   call |-> Len(S.log) + 1,
                   nested |-> S.moves > 0,
                   nmoves |-> CountMoves(S2.log) - CountMoves(S.log),
                   same |-> [S2 EXCEPT !.log = S.log] = S,
                   returned |-> S2 = S,
                   moving_before |-> S.move_texture_to_host[d],
                   moving_after |-> S2.move_texture_to_host[d],
                   left |-> {o \in Obj : Eligible(S2, d, o, for_texture)}])))

\* ---------------------------------------------------------------- allocator
HostBudgetCountsTwice(S, d, size) ==
  S.map_host_used[d] + size + size < map_host_limit[d]

\* The budget check before pinning new host memory.
HostBudgetHasRoom(S, d, size) == S.map_host_used[d] + size < map_host_limit[d]

NeedMoveForImages(S, d, o, size) ==
  /\ ~S.move_texture_to_host[d]
  /\ size + Headroom(d, IsTexture(d, o)) >= cuMemGetInfo(S, d)
  /\ can_map_host[d]

NotMovingOrMoving(S, d) == TRUE

\* !move_texture_to_host
NotMoving(S, d) == ~S.move_texture_to_host[d]

\* The condition on which generic_alloc moves textures to host memory.
NeedMove(S, d, o, size) ==
  /\ NotMoving(S, d)
  /\ ~IsImage(d, o)
  /\ size + Headroom(d, IsTexture(d, o)) >= cuMemGetInfo(S, d)
  /\ can_map_host[d]

FitsDeviceWhileMoving(S, d, o, size) ==
  size + Headroom(d, IsTexture(d, o)) < cuMemGetInfo(S, d)

\* The condition on which generic_alloc tries device memory.
FitsDevice(S, d, o, size) ==
  /\ NotMoving(S, d)
  /\ size + Headroom(d, IsTexture(d, o)) < cuMemGetInfo(S, d)

ReplaceHostPadded(S, d, o, pitch_padding, shared) ==
  /\ ~S.move_texture_to_host[d]
  /\ S.host_pointer[o] # NULL
  /\ S.host_pointer[o] # shared

\* Replace the caller's host buffer by the pinned region.
ReplaceHost(S, d, o, pitch_padding, shared) ==
  /\ ~S.move_texture_to_host[d]
  /\ pitch_padding = 0
  /\ S.host_pointer[o] # NULL
  /\ S.host_pointer[o] # shared

\* generic_alloc after the eviction, if any: S is the state at the call, S1
\* the state after the eviction.
AllocAfterMove(S, S1, d, o, pitch_padding, need_move) ==
  LET size == memory_size(S, o) + pitch_padding
      fits == FitsDevice(S1, d, o, size)
      \* cuMemAlloc
      in_device == fits /\ ~S1.alloc_fail /\ size <= cuMemGetInfo(S1, d)
      adopt == ~in_device /\ can_map_host[d] /\ S1.shared_pointer[o] # NULL
      room == HostBudgetHasRoom(S1, d, size)
      \* cuMemHostAlloc
      pin == ~in_device /\ can_map_host[d] /\ S1.shared_pointer[o] = NULL
             /\ room /\ ~S1.host_fail
      in_host == adopt \/ pin
      shared == IF adopt THEN S1.shared_pointer[o] ELSE IF pin THEN PINNED ELSE NULL
      ptr == IF in_device THEN DEVPTR ELSE IF in_host THEN MAPPED ELSE NULL
      \* a block whose pointer is overwritten stays allocated
      S2 == [S1 EXCEPT !.cu_lost[d] = IF in_device THEN @ + S1.cu_mem[d][o] ELSE @,
                       !.cu_mem[d][o] = IF in_device THEN size ELSE @,
                       !.pinned[o] = IF pin THEN TRUE ELSE @,
                       !.map_host_used[d] = IF in_host THEN @ + size ELSE @,
                       !.device_pointer[Holder(d, o)][o] = ptr,
                       !.device_size[Holder(d, o)][o] = size,
                       !.stats = @ + size]
      S3 == IF ptr = NULL THEN set_error(S2, d)
            ELSE IF shared # NULL
              THEN unlock(
                     [MapPut(lock(S2, d, "generic_alloc"), d, o,
                             [MapGet(S1, d, o) EXCEPT !.use_mapped_host = TRUE])
                        EXCEPT
                          !.host_pointer[o] =
                             IF ReplaceHost(S1, d, o, pitch_padding, shared)
                               THEN shared ELSE @,
                          !.shared_pointer[o] = shared,
                          !.shared_counter[o] = @ + 1], d, "generic_alloc")
              ELSE unlock(MapPut(lock(S2, d, "generic_alloc"), d, o,
                                 [MapGet(S1, d, o) EXCEPT !.use_mapped_host = FALSE]),
                          d, "generic_alloc")
  IN Run(S3, LAMBDA S4 :
       [Log(S4, [ev |-> "alloc", dev |-> d, mem |-> o, ret |-> ptr # NULL,
                 size |-> size, msize |-> memory_size(S4, o),
                 ptr |-> Ptr(S4, d, o), dsize |-> DSize(S4, d, o),
                 moved |-> need_move, in_device |-> in_device,
                 had_shared |-> S1.shared_pointer[o] # NULL,
                 used |-> S1.map_host_used[d], host_fail |-> S1.host_fail,
                 err_before |-> S.error[d],
                 fits |-> fits, alloc_fail |-> S1.alloc_fail,
                 tracked |-> Tracked(S4, d, o),
                 mapped |-> MapGet(S4, d, o).use_mapped_host,
                 map_same |-> S4.cuda_mem_map = S.cuda_mem_map,
                 ctx |-> S4.ctx,
                 free_before |-> cuMemGetInfo(S, d),
                 padding |-> pitch_padding,
                 ptr_over |-> Ptr(S1, d, o),
                 dirty |-> S.need_texture_info[d], flushes |-> S.flushes,
                 call |-> S.call,
                 counter_before |-> S1.shared_counter[o],
                 counter_after |-> S4.shared_counter[o],
                 charged |-> S4.stats - S1.stats,
                 host_before |-> S1.host_pointer[o],
                 host_after |-> S4.host_pointer[o],
                 shared_after |-> S4.shared_pointer[o],
                 host_freed |-> shared # NULL
                                /\ ReplaceHost(S1, d, o, pitch_padding, shared),
                 headroom |-> Headroom(d, IsTexture(d, o)),
                 moving |-> S.move_texture_to_host[d],
                 image |-> IsImage(d, o),
                 evict_at |-> IF Len(S1.log) > Len(S.log) THEN Len(S1.log) ELSE 0])
          EXCEPT !.ret = (ptr # NULL)])

generic_alloc(S0, d, o, pitch_padding) ==
  Run(ScopeEnter(S0, d), LAMBDA S :
    LET size == memory_size(S, o) + pitch_padding
        need_move == NeedMove(S, d, o, size)
    IN Run(IF need_move
             THEN move_textures_to_host(S, d, size + Headroom(d, IsTexture(d, o))
                                                 - cuMemGetInfo(S, d), IsTexture(d, o))
             ELSE S,
           LAMBDA S1 : ScopeLeave(AllocAfterMove(S, S1, d, o, pitch_padding, need_move))))

generic_copy_to_unchecked(S0, d, o) ==
  Run(MapPut(lock(S0, d, "generic_copy_to"), d, o, MapGet(S0, d, o)), LAMBDA S1 :
    unlock(Log(S1, [ev |-> "copy", dev |-> d, mem |-> o,
             dirty |-> S1.need_texture_info[d],
             htod |-> ~MapGet(S1, d, o).use_mapped_host
                      \/ S1.host_pointer[o] # S1.shared_pointer[o]]),
           d, "generic_copy_to"))

\* generic_copy_to: copy the host content to the allocation.
generic_copy_to(S0, d, o) ==
  Run(S0, LAMBDA S :
    IF S.host_pointer[o] = NULL \/ Ptr(S, d, o) = NULL THEN S
    ELSE LET S1 == MapPut(lock(S, d, "generic_copy_to"), d, o, MapGet(S, d, o))
             copies == ~MapGet(S, d, o).use_mapped_host
                       \/ S.host_pointer[o] # S.shared_pointer[o]
         IN unlock(
            IF copies
              THEN ScopeLeave(Log(ScopeEnter(S1, d),
                                  [ev |-> "copy", dev |-> d, mem |-> o,
                                   dirty |-> S.need_texture_info[d],
                                   htod |-> copies]))
              ELSE Log(S1, [ev |-> "copy", dev |-> d, mem |-> o,
                                   dirty |-> S.need_texture_info[d],
                                   htod |-> copies]), d, "generic_copy_to"))

\* State S differs from S0 in nothing but the record of o in the map of d.
OnlyErased(S0, S, d, o) ==
  /\ [S EXCEPT !.cuda_mem_map = S0.cuda_mem_map, !.log = S0.log, !.ops = S0.ops] = S0
  /\ \A e \in Dev \ {d} : S.cuda_mem_map[e] = S0.cuda_mem_map[e]
  /\ DOMAIN S.cuda_mem_map[d] = (DOMAIN S0.cuda_mem_map[d]) \ {o}
  /\ \A x \in DOMAIN S.cuda_mem_map[d] : S.cuda_mem_map[d][x] = S0.cuda_mem_map[d][x]

LastRefAlways(S, o) == S.shared_pointer[o] # NULL

\* if (--mem.shared_counter == 0): this free drops the last reference.
LastRef(S, o) == S.shared_pointer[o] # NULL /\ S.shared_counter[o] - 1 = 0

generic_free(S0, d, o) ==
  Run(S0, LAMBDA Sb :
    IF Ptr(Sb, d, o) = NULL THEN Sb
    ELSE LET S == lock(ScopeEnter(Sb, d), d, "generic_free")
             cmem == MapGet(S, d, o)
             last_ref == LastRef(S, o)
             S2 == IF cmem.use_mapped_host
                     THEN [S EXCEPT
                             !.shared_counter[o] =
                                IF S.shared_pointer[o] # NULL THEN @ - 1 ELSE @,
                             !.host_pointer[o] =
                                IF last_ref /\ @ = S.shared_pointer[o] THEN NULL ELSE @,
                             !.pinned[o] = IF last_ref THEN FALSE ELSE @,
                             !.shared_pointer[o] = IF last_ref THEN NULL ELSE @,
                             !.map_host_used[d] = @ - DSize(S, d, o)]
                     ELSE [S EXCEPT !.cu_mem[d][o] = 0]
             S3 == [S2 EXCEPT !.device_pointer[Holder(d, o)][o] = NULL,
                              !.device_size[Holder(d, o)][o] = 0,
                              !.stats = @ - DSize(S, d, o)]
         IN Run(MapErase(Touch(S3, d), d, o), LAMBDA S4 :
              ScopeLeave(unlock(
              Log(S4, [ev |-> "free", dev |-> d, mem |-> o, path |-> "generic",
                       ctx |-> S4.ctx,
                       ptr |-> Ptr(S4, d, o), dsize |-> DSize(S4, d, o),
                       ptr_before |-> Ptr(S, d, o), dsize_before |-> DSize(S, d, o),
                       mapped |-> cmem.use_mapped_host, tracked |-> Tracked(S4, d, o),
                       released |-> S.pinned[o] /\ ~S4.pinned[o], still |-> S4.pinned[o],
                       counter |-> S4.shared_counter[o],
                       texobject |-> cmem.texobject,
                       counter_before |-> S.shared_counter[o],
                       only_map |-> OnlyErased(S, S4, d, o),
                       others |-> {e \in Dev \ {d} :
                                     Tracked(S, e, o)
                                     /\ S.cuda_mem_map[e][o].use_mapped_host}]),
              d, "generic_free"))))

\* ----------------------------------------------------------------- globals
global_alloc(S, d, o) ==
  IF is_resident(d, o)
    THEN generic_copy_to(generic_alloc(S, d, o, 0), d, o)
    ELSE S

global_free(S0, d, o) ==
  Run(S0, LAMBDA S :
    IF is_resident(d, o) /\ Ptr(S, d, o) # NULL THEN generic_free(S, d, o) ELSE S)

\* ---------------------------------------------------------------- textures
\* Padding that rounds every row of a 2D texture up to the pitch alignment.
PitchPadding(S, d, o) ==
  align_up(data_width(o), pitch_alignment[d]) * data_height(o) - memory_size(S, o)

\* The part of tex_alloc after the backing storage exists: slot table and
\* bindless texture object.
TexBind(S0, d, o) ==
  Run(S0, LAMBDA S :
    LET S1 == [S EXCEPT !.texture_info_size[d] =
                           IF slot(o) >= @ THEN slot(o) + SlotChunk ELSE @,
                        !.host_pointer[TI(d)] =
                           IF slot(o) >= S.texture_info_size[d] /\ @ = NULL
                             THEN CALLER ELSE @,
                        !.need_texture_info[d] = TRUE]
    IN IF ~shape[o].nanovdb
         THEN unlock(MapPut(lock(S1, d, "tex_alloc"), d, o,
                            [MapGet(S, d, o) EXCEPT !.texobject = TRUE]),
                     d, "tex_alloc")
         ELSE S1)

tex_alloc(S0, d, o) ==
  Run(ScopeEnter(S0, d), LAMBDA S :
    ScopeLeave(
    IF ~is_resident(d, o)
      THEN TexBind(unlock(MapPut(lock(S, d, "tex_alloc"), d, o,
                                 [MapGet(S, d, o) EXCEPT
                                    !.texobject = FALSE,
                                    !.array = IF data_depth(o) > 1
                                                THEN Ptr(S, d, o) # NULL ELSE @]),
                          d, "tex_alloc"),
                   d, o)
    ELSE IF data_depth(o) > 1
      THEN \* cuArray3DCreate
           IF S.alloc_fail \/ memory_size(S, o) > cuMemGetInfo(S, d)
             THEN set_error(S, d)
             ELSE LET S1 == [S EXCEPT !.cu_mem[d][o] = memory_size(S, o),
                                      !.device_pointer[d][o] = ARRAYPTR,
                                      !.device_size[d][o] = memory_size(S, o),
                                      !.stats = @ + memory_size(S, o)]
                      S2 == unlock(MapPut(lock(S1, d, "tex_alloc"), d, o,
                                          [MapGet(S, d, o) EXCEPT
                                             !.texobject = FALSE, !.array = TRUE]),
                                   d, "tex_alloc")
                  IN TexBind(Log(S2, [ev |-> "alloc_array", dev |-> d, mem |-> o,
                                      ptr |-> ARRAYPTR, dsize |-> memory_size(S, o),
                                      msize |-> memory_size(S, o), ctx |-> S.ctx]),
                             d, o)
    ELSE Run(IF data_height(o) > 0
               THEN generic_alloc(S, d, o, PitchPadding(S, d, o))
               ELSE generic_alloc(S, d, o, 0),
             LAMBDA S1 : IF ~S1.ret THEN S1 ELSE TexBind(S1, d, o))))

FreeEvent(S0, S, d, o, path) ==
  [ev |-> "free", dev |-> d, mem |-> o, path |-> path,
   ptr |-> Ptr(S, d, o), dsize |-> DSize(S, d, o),
   ptr_before |-> Ptr(S0, d, o), dsize_before |-> DSize(S0, d, o),
   mapped |-> FALSE, tracked |-> Tracked(S, d, o), released |-> FALSE,
   still |-> S.pinned[o], counter |-> S.shared_counter[o],
   texobject |-> MapGet(S0, d, o).texobject,
   counter_before |-> S0.shared_counter[o],
   only_map |-> OnlyErased(S0, S, d, o),
   others |-> {}, ctx |-> S.ctx]

\* A peer that frees the memory as its owner does.
tex_free_peer_frees(S, d, o) == generic_free(S, d, o)

\* if (!mem.is_resident(this)) cuda_mem_map.erase(cuda_mem_map.find(&mem));
tex_free_peer(S, d, o) ==
  Run(MapErase(S, d, o), LAMBDA S2 : Log(S2, FreeEvent(S, S2, d, o, "peer")))

tex_free(S0, d, o) ==
  Run(S0, LAMBDA Sb :
    IF Ptr(Sb, d, o) = NULL THEN Sb
    ELSE Run(Touch(lock(ScopeEnter(Sb, d), d, "tex_free"), d), LAMBDA S :
      ScopeLeave(
      IF ~is_resident(d, o)
        THEN unlock(tex_free_peer(S, d, o), d, "tex_free")
      ELSE IF MapGet(S, d, o).array
        THEN Run(MapErase([S EXCEPT !.cu_mem[d][o] = 0,
                                    !.device_pointer[d][o] = NULL,
                                    !.device_size[d][o] = 0,
                                    !.stats = @ - DSize(S, d, o)], d, o),
                 LAMBDA S2 : unlock(Log(S2, FreeEvent(S, S2, d, o, "array")),
                                    d, "tex_free"))
      ELSE generic_free(lock_unlock(S, d, "tex_free"), d, o))))

\* ------------------------------------------------------------- device API
mem_alloc(S, d, o) ==
  IF MemType(o) \in {"MEM_TEXTURE", "MEM_GLOBAL"} THEN S
  ELSE generic_alloc(S, d, o, 0)

\* A copy that allocates whether or not the descriptor has a pointer.
NotAllocatedOrAny(S, d, o) == TRUE

\* if (!mem.device_pointer)
NotAllocated(S, d, o) == Ptr(S, d, o) = NULL

mem_copy_to(S0, d, o) ==
  IF MemType(o) = "MEM_GLOBAL" THEN global_alloc(global_free(S0, d, o), d, o)
  ELSE IF MemType(o) = "MEM_TEXTURE" THEN tex_alloc(tex_free(S0, d, o), d, o)
  ELSE Run(S0, LAMBDA S :
         generic_copy_to(IF NotAllocated(S, d, o) THEN generic_alloc(S, d, o, 0) ELSE S,
                         d, o))

mem_zero(S0, d, o) ==
  Run(S0, LAMBDA S :
    Run(LET Sz == Log(S, [ev |-> "mem_zero", dev |-> d, mem |-> o,
                          allocated |-> Ptr(S, d, o) # NULL,
                          msize |-> memory_size(S, o)])
        IN IF Ptr(S, d, o) = NULL THEN mem_alloc(Sz, d, o) ELSE Sz,
        LAMBDA S1 :
          IF Ptr(S1, d, o) = NULL THEN S1
          ELSE LET on_device == ~MapGet(S1, d, o).use_mapped_host
                                \/ S1.host_pointer[o] # S1.shared_pointer[o]
                   Sm == MapPut(lock(S1, d, "mem_zero"), d, o, MapGet(S1, d, o))
                   zero == [ev |-> "zero", dev |-> d, mem |-> o,
                            msize |-> memory_size(S1, o),
                            target |-> IF on_device THEN "device"
                                       ELSE IF S1.host_pointer[o] # NULL THEN "host"
                                       ELSE "none"]
               IN unlock(IF on_device THEN ScopeLeave(Log(ScopeEnter(Sm, d), zero))
                         ELSE Log(Sm, zero), d, "mem_zero")))

mem_free(S, d, o) ==
  IF MemType(o) = "MEM_GLOBAL" THEN global_free(S, d, o)
  ELSE IF MemType(o) = "MEM_TEXTURE" THEN tex_free(S, d, o)
  ELSE generic_free(S, d, o)

\* device_memory::device_copy_to() of a descriptor shared by the devices:
\* the copy is carried out on every device, the owner of a peer island
\* first and the other devices of the island only for textures and globals.
CopyOrder(o) ==
  IF o \notin Mem THEN <<o - NMem>>
  ELSE IF ~island THEN [i \in 1..NDev |-> i]
  ELSE IF MemType(o) \in {"MEM_TEXTURE", "MEM_GLOBAL"}
         THEN <<owner[o]>> \o SelectSeq([i \in 1..NDev |-> i], LAMBDA e : e # owner[o])
         ELSE <<owner[o]>>

RECURSIVE CopyOnEach(_, _, _)
CopyOnEach(S, devs, o) ==
  IF devs = <<>> THEN S
  ELSE CopyOnEach(mem_copy_to(S, Head(devs), o), Tail(devs), o)

device_copy_to(S, d, o) == CopyOnEach(S, CopyOrder(o), o)

\* ------------------------------------------------------------ kernel binary
\* Text is a sequence of characters: 0 is the space, 1 stands for the fixed
\* part of the flags, 2 and 3 for two options, 4 for -DWITH_NANOVDB.

\* "%d"
RECURSIVE Digits(_)
Digits(n) == IF n < 10 THEN <<n>> ELSE Digits(n \div 10) \o <<n % 10>>

\* string(): no kernel.
NoFile == [dir |-> "", name |-> "", arch |-> "", cap |-> <<>>, md5 |-> 0, ext |-> ""]

\* "lib/%s_sm_%d%d.cubin"
LibCubin(name, mj, mn) ==
  [dir |-> "lib", name |-> name, arch |-> "sm", cap |-> Digits(mj) \o Digits(mn),
   md5 |-> 0, ext |-> "cubin"]

\* "lib/%s_compute_%d%d.ptx"
LibPtx(name, mj, mn) ==
  [dir |-> "lib", name |-> name, arch |-> "compute", cap |-> Digits(mj) \o Digits(mn),
   md5 |-> 0, ext |-> "ptx"]

\* "kernels/cycles_%s_%s_%d%d_%s.%s" in the cache directory
CacheFile(name, kernel_arch, mj, mn, kernel_md5, kernel_ext) ==
  [dir |-> "cache", name |-> name, arch |-> kernel_arch,
   cap |-> Digits(mj) \o Digits(mn), md5 |-> kernel_md5, ext |-> kernel_ext]

path_exists(F, f) == f \in F

\* util_md5_string: a digest that tells apart all the texts of the model.
RECURSIVE util_md5_string(_)
util_md5_string(str) ==
  IF str = <<>> THEN 0
  ELSE util_md5_string(SubSeq(str, 1, Len(str) - 1)) * 6 + str[Len(str)] + 1

\* The settings a compile_kernel call reads: adaptive_compile of DebugFlags,
\* the build options of the requested features, CYCLES_CUDA_EXTRA_CFLAGS,
\* the md5 of the source tree, and the nvcc the call finds.
NoEnv == [set |-> FALSE, val |-> <<>>]
Requests ==
  {r \in [name : {"kernel"}, force_ptx : BOOLEAN, adaptive : BOOLEAN,
          opts : {<<2>>, <<2, 0, 3>>},
          extra : {NoEnv, [set |-> TRUE, val |-> <<>>], [set |-> TRUE, val |-> <<3>>]},
          source_md5 : {<<2, 2>>, <<2, 3>>},
          nvcc : {"none", "old", "ok", "exec_fail", "no_output"}] :
     r.adaptive \/ r.opts = <<2>>}

cflags_without_extra(req) ==
  <<1>> \o (IF req.adaptive THEN <<0>> \o req.opts ELSE <<>>) \o <<0, 4>>

compile_kernel_get_common_cflags(req) ==
  <<1>> \o (IF req.adaptive THEN <<0>> \o req.opts ELSE <<>>)
        \o (IF req.extra.set THEN <<0>> \o req.extra.val ELSE <<>>)
        \o <<0, 4>>

NextLevelSameMinor(ptx_major, ptx_minor) ==
  IF ptx_minor > 0 THEN <<ptx_major, ptx_minor - 1>> ELSE <<ptx_major - 1, ptx_minor>>

\* The capability level tried after ptx_major.ptx_minor.
NextLevel(ptx_major, ptx_minor) ==
  IF ptx_minor > 0 THEN <<ptx_major, ptx_minor - 1>> ELSE <<ptx_major - 1, 9>>

PtxSearchSkipped(F, name, ptx_major, ptx_minor, probes) ==
  [file |-> NoFile, probes |-> probes]

\* The search for a PTX the driver can JIT-compile: the file found, if any,
\* and the levels tried.
RECURSIVE PtxSearch(_, _, _, _, _)
PtxSearch(F, name, ptx_major, ptx_minor, probes) ==
  IF ptx_major >= 3
    THEN LET ptx == LibPtx(name, ptx_major, ptx_minor)
             tried == Append(probes, <<ptx_major, ptx_minor>>)
             next == NextLevel(ptx_major, ptx_minor)
         IN IF path_exists(F, ptx)
              THEN [file |-> ptx, probes |-> tried]
              ELSE PtxSearch(F, name, next[1], next[2], tried)
    ELSE [file |-> NoFile, probes |-> probes]

\* The file of the locally compiled kernel in the cache.
kernel_cache_file(req) ==
  LET common_cflags == compile_kernel_get_common_cflags(req)
      kernel_md5 == util_md5_string(req.source_md5 \o common_cflags)
  IN CacheFile(req.name, IF req.force_ptx THEN "compute" ELSE "sm",
               major, minor, kernel_md5,
               IF req.force_ptx THEN "ptx" ELSE "cubin")

NoRequest ==
  [called |-> FALSE, req |-> <<>>, kind |-> "", result |-> NoFile, file |-> NoFile,
   probes |-> <<>>, compiled |-> FALSE, error |-> FALSE, before |-> {}]

\* compile_kernel: the files afterwards and what the call did.
compile_kernel(F, req) ==
  LET cubin_lib == LibCubin(req.name, major, minor)
      lib_hit == ~req.adaptive /\ ~req.force_ptx /\ path_exists(F, cubin_lib)
      search == IF ~req.adaptive /\ ~lib_hit
                  THEN PtxSearch(F, req.name, major, minor, <<>>)
                  ELSE [file |-> NoFile, probes |-> <<>>]
      cubin == kernel_cache_file(req)
      did == [called |-> TRUE, req |-> req, kind |-> "", result |-> NoFile,
              file |-> NoFile, probes |-> search.probes, compiled |-> FALSE,
              error |-> FALSE, before |-> F]
  IN IF lib_hit
       THEN [files |-> F, did |-> [did EXCEPT !.kind = "lib_cubin", !.result = cubin_lib]]
     ELSE IF search.file # NoFile
       THEN [files |-> F, did |-> [did EXCEPT !.kind = "lib_ptx", !.result = search.file]]
     ELSE IF path_exists(F, cubin)
       THEN [files |-> F,
             did |-> [did EXCEPT !.kind = "cache", !.result = cubin, !.file = cubin]]
     ELSE IF req.nvcc = "none"
       THEN [files |-> F,
             did |-> [did EXCEPT !.kind = "no_nvcc", !.file = cubin, !.error = TRUE]]
     ELSE IF req.nvcc = "old"
       THEN [files |-> F, did |-> [did EXCEPT !.kind = "old_nvcc", !.file = cubin]]
     ELSE IF req.nvcc = "exec_fail"
       THEN [files |-> F,
             did |-> [did EXCEPT !.kind = "exec_failed", !.file = cubin,
                                 !.compiled = TRUE, !.error = TRUE]]
     ELSE IF req.nvcc = "no_output"
       THEN [files |-> F,
             did |-> [did EXCEPT !.kind = "no_output", !.file = cubin,
                                 !.compiled = TRUE, !.error = TRUE]]
     ELSE [files |-> F \cup {cubin},
           did |-> [did EXCEPT !.kind = "compiled", !.result = cubin, !.file = cubin,
                               !.compiled = TRUE]]

\* The installations the kernel model is run on: the capability of the
\* device and the kernels shipped in lib/.
Installs ==
  { [cap |-> <<7, 5>>, lib |-> {}],
    [cap |-> <<7, 5>>, lib |-> {LibPtx("kernel", 7, 0), LibPtx("kernel", 5, 2),
                                LibPtx("kernel", 8, 0)}],
    [cap |-> <<6, 1>>, lib |-> {LibCubin("kernel", 6, 1), LibPtx("kernel", 5, 9),
                                LibPtx("filter", 6, 1)}],
    [cap |-> <<5, 0>>, lib |-> {LibPtx("kernel", 2, 0), LibPtx("kernel", 5, 2),
                                LibCubin("kernel", 5, 2)}],
    [cap |-> <<3, 0>>, lib |-> {LibPtx("kernel", 3, 0)}],
    [cap |-> <<2, 1>>, lib |-> {LibPtx("kernel", 2, 1), LibPtx("kernel", 2, 0)}] }

\* -------------------------------------------------------------- the device
\* How the construction of a device can end: cuInit fails, cuDeviceGet
\* fails, cuCtxCreate fails, or the context is created.
Outcomes == {"no_cuda", "no_device", "no_context", "ok"}

\* CUDADevice::CUDADevice on a record of the contexts, the errors and the
\* thread's context stack; cuCtxCreate makes the new context current.
CUDADevice(S, d, out) ==
  IF out # "ok" THEN [set_error(S, d) EXCEPT !.cuContext[d] = 0]
  ELSE cuCtxPopCurrent(cuCtxPushCurrent([S EXCEPT !.cuContext[d] = d], d))

RECURSIVE ConstructAll(_, _, _)
ConstructAll(S, outs, d) ==
  IF d > NDev THEN S ELSE ConstructAll(CUDADevice(S, d, outs[d]), outs, d + 1)

\* The devices check_peer_access can be handed: the CUDA devices, the last
\* of them driven through OptiX, and the CPU device.
Peers == 1..(NDev + 1)
DeviceType(p) ==
  IF p > NDev THEN "DEVICE_CPU" ELSE IF p = NDev THEN "DEVICE_OPTIX" ELSE "DEVICE_CUDA"

\* What the driver answers during a check_peer_access call.
DriverSays == {"no_access", "no_array_access", "first_fails", "second_fails", "ok"}

PeerCapableLinkOnly(drv) == drv # "no_access"

\* cuDeviceCanAccessPeer and CU_DEVICE_P2P_ATTRIBUTE_CUDA_ARRAY_ACCESS_SUPPORTED
PeerCapable(drv) == drv \notin {"no_access", "no_array_access"}

EnablePeerAccessAlways(S, from, to, ok) ==
  [Log(S, [ev |-> "enable", from |-> from, to |-> to, ok |-> ok, current |-> S.ctx])
     EXCEPT !.peer_access = @ \cup {<<from, to>>}]

\* cuCtxEnablePeerAccess, called with the context of device from current.
EnablePeerAccess(S, from, to, ok) ==
  [Log(S, [ev |-> "enable", from |-> from, to |-> to, ok |-> ok, current |-> S.ctx])
     EXCEPT !.peer_access = IF ok THEN @ \cup {<<from, to>>} ELSE @]

check_peer_access(S0, d, p, drv) ==
  Run(S0, LAMBDA S :
    LET ev == [ev |-> "peer", dev |-> d, peer |-> p, drv |-> drv, ret |-> FALSE,
               error_before |-> S.error[d], access_before |-> S.peer_access]
    IN IF p = d THEN Log(S, ev)
       ELSE IF DeviceType(p) \notin {"DEVICE_CUDA", "DEVICE_OPTIX"} THEN Log(S, ev)
       ELSE IF ~PeerCapable(drv) THEN Log(S, ev)
       ELSE Run(EnablePeerAccess(ScopeEnter(S, d), d, p, drv # "first_fails"),
                LAMBDA S1 :
                  IF drv = "first_fails" THEN Log(ScopeLeave(set_error(S1, d)), ev)
                  ELSE Run(EnablePeerAccess(ScopeEnter(ScopeLeave(S1), p), p, d,
                                            drv # "second_fails"),
                           LAMBDA S2 :
                             IF drv = "second_fails"
                               THEN Log(ScopeLeave(set_error(S2, d)), ev)
                               ELSE Log(ScopeLeave(S2), [ev EXCEPT !.ret = TRUE]))))

\* support_device
support_device == major >= 3

\* reserve_local_memory: a context scope of its own, nothing else in this
\* build.
reserve_local_memory(S, d) == ScopeLeave(ScopeEnter(S, d))

\* The requests load_kernels passes to compile_kernel: the kernel named
\* "kernel", force_ptx left at its default.
LoadRequests ==
  {r \in Requests : ~r.force_ptx /\ r.extra = NoEnv /\ r.source_md5 = <<2, 2>>}

load_kernels_again(S0, d, req, load_ok, handle) ==
  Run(S0, LAMBDA S :
    LET ev == [ev |-> "load", dev |-> d, ret |-> FALSE, before |-> S.cuModule[d],
               after |-> S.cuModule[d], did |-> NoRequest, loaded |-> FALSE,
               inside |-> <<>>, error |-> S.error[d]]
    IN Run(compile_kernel(S.files, req), LAMBDA out :
         LET S1 == [S EXCEPT !.files = out.files,
                             !.error[d] = @ \/ out.did.error]
             S2 == ScopeEnter(S1, d)
             S3 == IF load_ok
                     THEN reserve_local_memory([S2 EXCEPT !.cuModule[d] = handle], d)
                     ELSE set_error(S2, d)
         IN Log(ScopeLeave(S3),
                [ev EXCEPT !.ret = load_ok, !.after = S3.cuModule[d],
                           !.did = out.did, !.loaded = TRUE, !.inside = S3.ctx,
                           !.error = S3.error[d]])))

\* load_kernels: load_ok is the outcome of reading the binary and of
\* cuModuleLoadData, handle the module handle the driver returns.
load_kernels(S0, d, req, load_ok, handle) ==
  Run(S0, LAMBDA S :
    LET ev == [ev |-> "load", dev |-> d, ret |-> FALSE, before |-> S.cuModule[d],
               after |-> S.cuModule[d], did |-> NoRequest, loaded |-> FALSE,
               inside |-> <<>>, error |-> S.error[d]]
    IN IF S.cuModule[d] # 0 THEN Log(S, [ev EXCEPT !.ret = TRUE])
       ELSE IF S.cuContext[d] = 0 THEN Log(S, ev)
       ELSE IF ~support_device THEN Log(set_error(S, d), [ev EXCEPT !.error = TRUE])
       ELSE Run(compile_kernel(S.files, req), LAMBDA out :
              LET S1 == [S EXCEPT !.files = out.files,
                                  !.error[d] = @ \/ out.did.error]
              IN IF out.did.result = NoFile
                   THEN Log(S1, [ev EXCEPT !.did = out.did, !.error = S1.error[d]])
                 ELSE LET S2 == ScopeEnter(S1, d)
                          S3 == IF load_ok
                                  THEN reserve_local_memory(
                                         [S2 EXCEPT !.cuModule[d] = handle], d)
                                  ELSE set_error(S2, d)
                      IN Log(ScopeLeave(S3),
                             [ev EXCEPT !.ret = load_ok, !.after = S3.cuModule[d],
                                        !.did = out.did, !.loaded = TRUE,
                                        !.inside = S3.ctx,
                                        !.error = S3.error[d]])))

\* ------------------------------------------------------------ state machine
\* The program state as a record, with the outcome of the driver's
\* allocation calls during the handler: alloc_fail makes cuMemAlloc and
\* cuArray3DCreate fail, host_fail makes cuMemHostAlloc fail.
State(alloc_fail, host_fail) ==
  [device_pointer |-> device_pointer, device_size |-> device_size,
   host_pointer |-> host_pointer, shared_pointer |-> shared_pointer,
   shared_counter |-> shared_counter, texture_info_size |-> texture_info_size,
   cuda_mem_map |-> cuda_mem_map, map_host_used |-> map_host_used,
   move_texture_to_host |-> move_texture_to_host,
   need_texture_info |-> need_texture_info,
   any_device_moving_textures_to_host |-> any_device_moving_textures_to_host,
   error |-> error, cu_mem |-> cu_mem, pinned |-> pinned, stats |-> stats,
   cu_lost |-> cu_lost,
   cuContext |-> cuContext, ctx |-> ctx_stack, moves |-> 0, call |-> 0, flushes |-> 0,
   held |-> [d \in Dev |-> FALSE], ops |-> 0,
   alloc_fail |-> alloc_fail, host_fail |-> host_fail, ret |-> FALSE, log |-> <<>>]

CommitMemory(S) ==
  /\ device_pointer' = S.device_pointer
  /\ device_size' = S.device_size
  /\ host_pointer' = S.host_pointer
  /\ shared_pointer' = S.shared_pointer
  /\ shared_counter' = S.shared_counter
  /\ texture_info_size' = S.texture_info_size
  /\ cuda_mem_map' = S.cuda_mem_map
  /\ map_host_used' = S.map_host_used
  /\ move_texture_to_host' = S.move_texture_to_host
  /\ need_texture_info' = S.need_texture_info
  /\ any_device_moving_textures_to_host' = S.any_device_moving_textures_to_host
  /\ error' = S.error
  /\ cu_mem' = S.cu_mem
  /\ pinned' = S.pinned
  /\ stats' = S.stats
  /\ cu_lost' = S.cu_lost
  /\ last' = S.log
  /\ ctx_stack' = S.ctx
  /\ UNCHANGED <<cfgvars, edvars, kvars, devvars>>

Commit(S) == CommitMemory(S) /\ UNCHANGED evictvars

\* A thread that is not in move_textures_to_host.
NoThread == [pc |-> "idle", size |-> 0, for_texture |-> FALSE, max |-> NoMax]

Idle == [op |-> "idle", mem |-> 0, todo |-> <<>>]

\* The orders in which a request on a shared descriptor reaches the devices.
Orders(o) ==
  IF island THEN {CopyOrder(o)}
  ELSE {CopyOrder(o), [i \in 1..NDev |-> NDev + 1 - i]}

\* Device d is the next to handle request op on descriptor o: it starts a
\* new request, or continues the one in progress.
Turn(op, d, o) ==
  \/ /\ multi = Idle
     /\ nops < MaxOps
     /\ nops' = nops + 1
     /\ \E order \in Orders(o) :
          /\ Head(order) = d
          /\ multi' = IF Tail(order) = <<>> THEN Idle
                      ELSE [op |-> op, mem |-> o, todo |-> Tail(order)]
  \/ /\ multi.op = op /\ multi.mem = o /\ Head(multi.todo) = d
     /\ nops' = nops
     /\ multi' = IF Tail(multi.todo) = <<>> THEN Idle
                 ELSE [multi EXCEPT !.todo = Tail(@)]

\* ------------------------------------------------------------ RenderPasses
\* eRenderPassBit
RENDERPASS_NONE == 0
RENDERPASS_COMBINED == 1
RENDERPASS_DEPTH == 2
RENDERPASS_NORMAL == 4
RENDERPASS_VECTOR == 8
RENDERPASS_MAX == 9
PassBits == {RENDERPASS_COMBINED, RENDERPASS_DEPTH, RENDERPASS_NORMAL, RENDERPASS_VECTOR}

\* static_cast<eRenderPassBit>(0xFFFFFFFF): every bit set.
AllPasses == -1

\* a & b for a, b >= 0 and for AllPasses
RECURSIVE BitAnd(_, _)
BitAnd(a, b) ==
  IF a = AllPasses THEN b
  ELSE IF b = AllPasses THEN a
  ELSE IF a = 0 \/ b = 0 THEN 0
  ELSE (a % 2) * (b % 2) + 2 * BitAnd(a \div 2, b \div 2)

\* The smallest power of two that is not below x.
RECURSIVE power_of_2_from(_, _)
power_of_2_from(p, x) == IF p >= x THEN p ELSE power_of_2_from(2 * p, x)
power_of_2_max_constexpr(x) == power_of_2_from(1, x)

\* RenderPasses::begin() and end(): the value of Iterator::current_
IteratorBegin == 1
IteratorEnd == power_of_2_max_constexpr(RENDERPASS_MAX)

\* Iterator::operator++ on current_ with enabled_passes_ = enabled
RECURSIVE IteratorNext(_, _)
IteratorNext(current, enabled) ==
  IF current < RENDERPASS_MAX
    THEN LET c == 2 * current
         IN IF BitAnd(c, enabled) # 0 THEN c ELSE IteratorNext(c, enabled)
    ELSE current

\* The functions of RenderPasses that run a range-for loop over the passes.
PassesOps == {"init", "sync", "end_sync", "resolve_viewport", "read_result"}

\* A RenderPasses after its constructor: films is the set of passes whose
\* Film pointer is not null. op to crashed describe the range-for loop of
\* the running function: the local enabled_passes of init, the iterator,
\* the passes the loop body ran on, whether a body dereferenced a null
\* film, whether an assertion failed, and whether the process stopped there.
RenderPassesNew ==
  [ films |-> {}, enabled_passes_ |-> RENDERPASS_NONE,
    inited |-> FALSE, op |-> "none", enabled_passes |-> RENDERPASS_NONE, current_ |-> 0,
    visited |-> <<>>, loop_passes |-> RENDERPASS_NONE, null_film |-> FALSE,
    asserted |-> FALSE, crashed |-> FALSE ]

\* A call of one of the functions, up to the first test of the loop. init
\* computes enabled_passes from the render layer or the viewport and sets
\* every bit of enabled_passes_ for its loop.
PassesCall(R, op, passes) ==
  LET R1 == IF op = "init"
              THEN [R EXCEPT !.enabled_passes = passes, !.enabled_passes_ = AllPasses]
              ELSE R
  IN [R1 EXCEPT !.op = op, !.current_ = IteratorBegin, !.visited = <<>>,
                !.loop_passes = R1.enabled_passes_, !.null_film = FALSE,
                !.asserted = FALSE]

\* The body of the loop of R.op on the item *it, rp being the result of
\* RE_pass_find_by_name in read_result, then ++it.
PassesBody(R, rp) ==
  LET bit == R.current_
      film == bit \in R.films        \* rpi.film != nullptr
      enable == BitAnd(R.enabled_passes, bit) # 0
      films == IF R.op # "init" THEN R.films
               ELSE IF enable THEN R.films \union {bit}
               ELSE R.films \ {bit}
      deref == CASE R.op = "init" -> FALSE
                 [] R.op = "read_result" -> rp
                 [] OTHER -> TRUE
      assert == /\ R.op = "resolve_viewport"
                /\ bit # RENDERPASS_DEPTH
                /\ BitAnd(R.enabled_passes_, (IteratorEnd - 1) - RENDERPASS_DEPTH) # bit
  IN [R EXCEPT !.films = films,
               !.visited = Append(@, bit),
               !.null_film = @ \/ (deref /\ ~film),
               !.asserted = @ \/ assert,
               !.current_ = IteratorNext(bit, R.enabled_passes_)]

\* The end of the loop: init stores enabled_passes.
PassesReturn(R) ==
  [R EXCEPT !.op = "none",
            !.inited = @ \/ R.op = "init",
            !.enabled_passes_ = IF R.op = "init" THEN R.enabled_passes ELSE @]

\* ------------------------------------------------------------- CURVE_OT_pen
\* The events the window manager hands to the operator: type and val of the
\* wmEvent, the result of WM_event_drag_test on it, and whether
\* ED_curve_editnurb_select_pick finds a point under the cursor.
PenEventTypes == {"LEFTMOUSE", "RIGHTMOUSE", "MOUSEMOVE", "INBETWEEN_MOUSEMOVE",
                  "EVT_MODAL_MAP"}
PenEventVals == {"KM_NOTHING", "KM_PRESS", "KM_RELEASE"}
PenEvents ==
  [type : PenEventTypes, val : PenEventVals, drag_test : BOOLEAN, pick : BOOLEAN]
NoEvent == [type |-> "none", val |-> "KM_NOTHING", drag_test |-> FALSE, pick |-> FALSE]

\* The operator before it is invoked: the properties dragging and new have
\* their defaults and no modal handler is registered. call, event and ret
\* are the last callback run, its event and its return value; asserted
\* records a failed BLI_assert of curve_pen_invoke.
PenOperator ==
  [ dragging |-> FALSE, new |-> FALSE, handler |-> FALSE,
    call |-> "none", event |-> NoEvent, ret |-> "none", was_dragging |-> FALSE,
    asserted |-> FALSE ]

\* curve_pen_modal on the operator properties of P: the properties after
\* it and the value it returns.
curve_pen_modal(P, event) ==
  LET dragging == P.dragging
      P1 == IF event.type \in {"MOUSEMOVE", "INBETWEEN_MOUSEMOVE"}
              THEN IF ~dragging /\ event.drag_test /\ event.val = "KM_PRESS"
                     THEN [P EXCEPT !.dragging = TRUE]
                     ELSE P
            ELSE IF event.type = "LEFTMOUSE"
              THEN LET P2 == IF event.val = "KM_PRESS"
                               THEN [P EXCEPT !.new = ~event.pick]
                               ELSE P
                   IN IF event.val = "KM_RELEASE" /\ dragging
                        THEN [P2 EXCEPT !.dragging = FALSE]
                        ELSE P2
            ELSE P
      ret == IF event.type = "LEFTMOUSE" /\ event.val = "KM_RELEASE"
               THEN "OPERATOR_FINISHED"
               ELSE "OPERATOR_RUNNING_MODAL"
  IN [P1 EXCEPT !.ret = ret, !.event = event, !.was_dragging = dragging]

\* curve_pen_invoke on a new operator.
curve_pen_invoke(P, event) ==
  LET P1 == curve_pen_modal([P EXCEPT !.dragging = FALSE, !.new = FALSE], event)
  IN [P1 EXCEPT !.call = "invoke",
                !.asserted = P1.ret # "OPERATOR_RUNNING_MODAL",
                !.handler = P1.ret = "OPERATOR_RUNNING_MODAL"]

\* The modal handler run by the window manager, which removes the handler
\* when the operator has finished.
modal_handler(P, event) ==
  LET P1 == curve_pen_modal(P, event)
  IN [P1 EXCEPT !.call = "modal", !.asserted = FALSE,
                !.handler = P1.ret = "OPERATOR_RUNNING_MODAL"]


\* The devices after construction, on scene w and machine k.
InitDevices(w, k) ==
  /\ shape = [m \in Mem |-> ShapeList[w[((m - 1) % Len(w)) + 1]]]
  /\ island = k.island
  /\ owner = [m \in Mem |-> IF k.island THEN (m % NDev) + 1 ELSE 1]
  /\ can_map_host = [d \in Dev |-> d = 1 \/ k.map_all]
  /\ system_ram = k.ram
  /\ map_host_limit = [d \in Dev |-> IF d = 1 \/ k.map_all
                                       THEN init_host_memory(k.ram) ELSE 0]
  /\ cu_other = [d \in Dev |-> IF ~k.load THEN 0
                               ELSE IF d = 1 THEN LowLoad ELSE HighLoad]
  /\ pitch_alignment = [d \in Dev |-> PitchAlignment]
  /\ device_pointer = [d \in Dev |-> [o \in Obj |-> NULL]]
  /\ device_size = [d \in Dev |-> [o \in Obj |-> 0]]
  /\ host_pointer = [o \in Obj |-> IF o \in Mem THEN CALLER ELSE NULL]
  /\ shared_pointer = [o \in Obj |-> NULL]
  /\ shared_counter = [o \in Obj |-> 0]
  /\ texture_info_size = [d \in Dev |-> 0]
  /\ cuda_mem_map = [d \in Dev |-> <<>>]
  /\ map_host_used = [d \in Dev |-> 0]
  /\ move_texture_to_host = [d \in Dev |-> FALSE]
  /\ need_texture_info = [d \in Dev |-> FALSE]
  /\ any_device_moving_textures_to_host = FALSE
  /\ cu_mem = [d \in Dev |-> [o \in Obj |-> 0]]
  /\ pinned = [o \in Obj |-> FALSE]
  /\ stats = 0
  /\ cu_lost = [d \in Dev |-> 0]
  /\ multi = Idle
  /\ last = <<>>
  /\ nops = 0
  /\ thread = [d \in Dev |-> NoThread]
  /\ move_mutex = 0
  /\ cuda_mem_map_mutex = [d \in Dev |-> 0]
  /\ render_passes = RenderPassesNew
  /\ pen = PenOperator

\* A context that does not belong to a CUDADevice.
ForeignContext == NDev + 1

\* The contexts, the errors and the thread's context stack once every
\* device is constructed, construction ending as outs says; base is the
\* context stack of the thread before.
Constructed(outs, base) ==
  LET S == ConstructAll([cuContext |-> [d \in Dev |-> 0],
                         error |-> [d \in Dev |-> FALSE], ctx |-> base], outs, 1)
  IN /\ cuContext = S.cuContext
     /\ error = S.error
     /\ ctx_stack = S.ctx
     /\ cuModule = [d \in Dev |-> 0]
     /\ peer_access = {}

Init ==
  /\ \E sc \in Scenes : InitDevices(sc.w, sc.k)
  /\ Constructed([d \in Dev |-> "ok"], <<>>)
  /\ major = 0
  /\ minor = 0
  /\ files = {}
  /\ kernel_last = NoRequest
  /\ nreq = 0

\* mem_alloc of a buffer that is not allocated; textures and globals are
\* rejected by the assertions of mem_alloc.
MemAlloc(d, o) ==
  /\ MemType(o) \notin {"MEM_TEXTURE", "MEM_GLOBAL"}
  /\ device_pointer[d][o] = NULL
  /\ Turn("mem_alloc", d, o)
  /\ \E af \in BOOLEAN, hf \in BOOLEAN :
       \E S \in {mem_alloc(State(af, hf), d, o)} : Commit(S)

\* What a caller can observe of the allocations: which descriptors each
\* device tracks, which of them are in mapped host memory, the reference
\* counts, the host budget used and the memory statistics.
Observable(S) ==
  [tracked |-> [e \in Dev |-> DOMAIN S.cuda_mem_map[e]],
   present |-> [e \in Dev |-> {x \in Obj : Ptr(S, e, x) # NULL}],
   mapped |-> [e \in Dev |-> {x \in DOMAIN S.cuda_mem_map[e] :
                                 S.cuda_mem_map[e][x].use_mapped_host}],
   shared_counter |-> S.shared_counter,
   map_host_used |-> S.map_host_used,
   stats |-> S.stats]

\* The state after mem_copy_to, with a record of what a second mem_copy_to
\* of the same descriptor, served by the driver in the same way, would
\* leave behind.
CopiedTwice(S1, d, o) ==
  Run(mem_copy_to(S1, d, o), LAMBDA S2 :
    Log(S1, [ev |-> "copy_to", dev |-> d, mem |-> o,
             once |-> Observable(S1), twice |-> Observable(S2),
             ptr |-> Ptr(S1, d, o), error |-> S1.error[d],
             size |-> memory_size(S1, o),
             host |-> S1.host_pointer[o], host_twice |-> S2.host_pointer[o],
             alloc_fail |-> S1.alloc_fail, host_fail |-> S1.host_fail]))

MemCopyTo(d, o) ==
  /\ Turn("mem_copy_to", d, o)
  /\ \E af \in BOOLEAN, hf \in BOOLEAN :
       \E S1 \in {mem_copy_to(State(af, hf), d, o)} :
         \E S \in {CopiedTwice(S1, d, o)} : Commit(S)

\* mem_zero of a buffer; textures and globals are rejected by the
\* assertions of mem_alloc.
MemZero(d, o) ==
  /\ MemType(o) \notin {"MEM_TEXTURE", "MEM_GLOBAL"}
  /\ Turn("mem_zero", d, o)
  /\ \E af \in BOOLEAN, hf \in BOOLEAN :
       \E S \in {mem_zero(State(af, hf), d, o)} : Commit(S)

MemFree(d, o) ==
  /\ Turn("mem_free", d, o)
  /\ \E S \in {mem_free(State(FALSE, FALSE), d, o)} : Commit(S)

\* load_texture_info before a kernel is launched.
LoadTextureInfo(d) ==
  /\ multi = Idle
  /\ need_texture_info[d]
  /\ nops < MaxOps
  /\ nops' = nops + 1
  /\ multi' = multi
  /\ \E af \in BOOLEAN, hf \in BOOLEAN :
       \E S \in {load_texture_info(State(af, hf), d)} : Commit(S)

Next ==
  \/ \E d \in Dev, o \in Mem : MemAlloc(d, o)
  \/ \E d \in Dev, o \in Mem : MemCopyTo(d, o)
  \/ \E d \in Dev, o \in Mem : MemZero(d, o)
  \/ \E d \in Dev, o \in Mem : MemFree(d, o)
  \/ \E d \in Dev : LoadTextureInfo(d)

Spec == Init /\ [][Next]_vars

\* The model of the kernel binary: the devices stay as constructed.
InitKernel ==
  /\ InitDevices(<<1, 3, 4>>, PlainMachine)
  /\ Constructed([d \in Dev |-> "ok"], <<>>)
  /\ \E i \in Installs :
       /\ major = i.cap[1]
       /\ minor = i.cap[2]
       /\ files = i.lib
  /\ kernel_last = NoRequest
  /\ nreq = 0

CompileKernel(req) ==
  /\ nreq < MaxReq
  /\ nreq' = nreq + 1
  /\ LET out == compile_kernel(files, req)
     IN /\ files' = out.files
        /\ kernel_last' = out.did
  /\ UNCHANGED <<major, minor, cfgvars, edvars, memvars, devvars, evictvars>>

NextKernel == \E req \in Requests : CompileKernel(req)

SpecKernel == InitKernel /\ [][NextKernel]_vars

\* The model of the devices themselves: construction, loading of the
\* kernels, peer access.
DeviceInstalls == {i \in Installs : i.lib = {} \/ i.cap \in {<<6, 1>>, <<2, 1>>}}

DeviceState ==
  [cuContext |-> cuContext, cuModule |-> cuModule, peer_access |-> peer_access,
   error |-> error, ctx |-> ctx_stack, files |-> files, log |-> <<>>]

CommitDevice(S) ==
  /\ cuContext' = S.cuContext
  /\ cuModule' = S.cuModule
  /\ peer_access' = S.peer_access
  /\ error' = S.error
  /\ ctx_stack' = S.ctx
  /\ files' = S.files
  /\ last' = S.log
  /\ nreq' = nreq + 1
  /\ UNCHANGED <<cfgvars, edvars, major, minor, kernel_last, device_pointer, device_size,
                 host_pointer, shared_pointer, shared_counter, texture_info_size,
                 cuda_mem_map, map_host_used, move_texture_to_host, need_texture_info,
                 any_device_moving_textures_to_host, cu_mem, pinned, multi, nops,
                 stats, cu_lost, evictvars>>

InitDevice ==
  /\ InitDevices(<<1, 3, 4>>, IslandMachine)
  /\ \E outs \in [Dev -> Outcomes], base \in {<<>>, <<ForeignContext>>} :
       Constructed(outs, base)
  /\ \E i \in DeviceInstalls :
       /\ major = i.cap[1]
       /\ minor = i.cap[2]
       /\ files = i.lib
  /\ kernel_last = NoRequest
  /\ nreq = 0

\* A run of the device model sets the devices up or uses their memory.
SettingUp == nops = 0 /\ multi = Idle
InUse == nreq = 0 /\ \A d \in Dev : cuContext[d] # 0

LoadKernels(d, req) ==
  /\ SettingUp
  /\ nreq < MaxReq
  /\ \E load_ok \in BOOLEAN :
       \E S \in {load_kernels(DeviceState, d, req, load_ok, nreq + 1)} : CommitDevice(S)

CheckPeerAccess(d, p) ==
  /\ SettingUp
  /\ nreq < MaxReq
  /\ \E drv \in DriverSays :
       \E S \in {check_peer_access(DeviceState, d, p, drv)} : CommitDevice(S)

NextDevice ==
  \/ \E d \in Dev, req \in LoadRequests : LoadKernels(d, req)
  \/ \E d \in Dev, p \in Peers : CheckPeerAccess(d, p)
  \/ InUse /\ Next

SpecDevice == InitDevice /\ [][NextDevice]_vars

\* The requests on machines of several system RAM sizes: 0, which stands for
\* a size that could not be determined, an odd size below twice the default
\* limit, the sizes around twice the default limit, and MaxRam.
HostMemoryScene == <<1, 2, 3>>
RamSizes == {0, 5, 2 * DefaultLimit, 2 * DefaultLimit + 1, 2 * DefaultLimit + 2, MaxRam}

InitHostMemory ==
  /\ \E ram \in RamSizes :
       InitDevices(HostMemoryScene, [SmallMachine EXCEPT !.ram = ram, !.map_all = TRUE])
  /\ Constructed([d \in Dev |-> "ok"], <<>>)
  /\ major = 0
  /\ minor = 0
  /\ files = {}
  /\ kernel_last = NoRequest
  /\ nreq = 0

SpecHostMemory == InitHostMemory /\ [][Next]_vars

\* The model of move_textures_to_host run by one thread for each device.
\* The devices are filled by requests first; then each thread calls
\* move_textures_to_host once, and its steps interleave with the other's.
EvictScenes == {[w |-> <<2, 3, 4>>, k |-> PlainMachine]}

\* The sizes move_textures_to_host is asked to free.
EvictSizes == {1, DevTotal}

InitEvict ==
  /\ \E sc \in EvictScenes : InitDevices(sc.w, sc.k)
  /\ Constructed([d \in Dev |-> "ok"], <<>>)
  /\ major = 0
  /\ minor = 0
  /\ files = {}
  /\ kernel_last = NoRequest
  /\ nreq = 0

\* No thread has called move_textures_to_host yet.
Quiet == \A d \in Dev : thread[d].pc = "idle"

\* The devices are filled by mem_copy_to requests that the driver serves.
EvictFill(d, o) ==
  /\ Quiet
  /\ Turn("mem_copy_to", d, o)
  /\ \E S \in {mem_copy_to(State(FALSE, FALSE), d, o)} : Commit([S EXCEPT !.log = <<>>])

\* The steps of a thread leave the requests and the kernels alone.
ThreadStep == multi = Idle /\ UNCHANGED <<multi, nops, cfgvars, edvars, kvars, devvars>>

\* The memory of the devices is as it was.
SameMemory ==
  UNCHANGED <<device_pointer, device_size, host_pointer, shared_pointer, shared_counter,
              texture_info_size, cuda_mem_map, map_host_used, need_texture_info, error,
              cu_mem, pinned, ctx_stack, stats, cu_lost>>

\* A read of the static flag while no other thread can be writing it gives
\* its value; a read that races with the holder of move_mutex gives either.
RacyRead(d) ==
  IF move_mutex \notin {0, d} THEN BOOLEAN ELSE {any_device_moving_textures_to_host}

\* The thread of device d calls move_textures_to_host(size, for_texture).
EvictCall(d, size, for_texture) ==
  /\ thread[d].pc = "idle"
  /\ nops = MaxOps
  /\ ThreadStep
  /\ thread' = [thread EXCEPT ![d] = [pc |-> "enter", size |-> size,
                                      for_texture |-> for_texture, max |-> NoMax]]
  /\ last' = <<>>
  /\ SameMemory
  /\ UNCHANGED <<move_texture_to_host, any_device_moving_textures_to_host, move_mutex,
                 cuda_mem_map_mutex>>

\* if (any_device_moving_textures_to_host) return; move_texture_to_host = true;
EvictEnter(d) ==
  /\ thread[d].pc = "enter"
  /\ ThreadStep
  /\ \E guard \in RacyRead(d) :
       /\ IF guard
            THEN /\ thread' = [thread EXCEPT ![d].pc = "done"]
                 /\ UNCHANGED move_texture_to_host
            ELSE /\ thread' = [thread EXCEPT ![d].pc = "loop"]
                 /\ move_texture_to_host' = [move_texture_to_host EXCEPT ![d] = TRUE]
       /\ last' = <<[ev |-> "thread_enter", dev |-> d, guard |-> guard,
                      flag |-> any_device_moving_textures_to_host,
                      mover |-> move_mutex, size |-> thread[d].size,
                      eligible |-> ScanMax(State(FALSE, FALSE), d,
                                           thread[d].for_texture, 1, NoMax).mem # NULL]>>
  /\ SameMemory
  /\ UNCHANGED <<any_device_moving_textures_to_host, move_mutex, cuda_mem_map_mutex>>

\* The scoped lock of the scan is released at the end of the loop body, if the
\* thread still holds it.
ScopeExit(mutex, d) == [e \in Dev |-> IF mutex[e] = d THEN 0 ELSE mutex[e]]

\* The map mutex kept by the scan until the end of the loop body.
ScanKeepsLock(mutex, d) == mutex

\* lock.unlock() after the scan.
ScanUnlock(mutex, d) == [mutex EXCEPT ![d] = 0]

\* A thread at the head of the loop goes on: the loop is over, or the map
\* mutex of its device is free.
MapMutexFree(d) == thread[d].size = 0 \/ cuda_mem_map_mutex[d] = 0

\* while (size > 0) { thread_scoped_lock lock(cuda_mem_map_mutex);
EvictLoop(d) ==
  /\ thread[d].pc = "loop"
  /\ ThreadStep
  /\ MapMutexFree(d)
  /\ IF thread[d].size > 0
       THEN /\ cuda_mem_map_mutex' = [cuda_mem_map_mutex EXCEPT ![d] = d]
            /\ thread' = [thread EXCEPT ![d].pc = "scan"]
       ELSE /\ thread' = [thread EXCEPT ![d].max = NoMax, ![d].pc = "exit"]
            /\ UNCHANGED cuda_mem_map_mutex
  /\ last' = <<>>
  /\ SameMemory
  /\ UNCHANGED <<move_texture_to_host, any_device_moving_textures_to_host, move_mutex>>

\* The scan of cuda_mem_map under cuda_mem_map_mutex, and lock.unlock(); a
\* scan that selects nothing leaves the loop.
EvictScan(d) ==
  /\ thread[d].pc = "scan"
  /\ ThreadStep
  /\ \E max \in {ScanMax(State(FALSE, FALSE), d, thread[d].for_texture, 1, NoMax)} :
       /\ thread' = [thread EXCEPT ![d].max = max,
                                   ![d].pc = IF max.mem = NULL THEN "exit" ELSE "lock"]
       /\ cuda_mem_map_mutex' =
            IF max.mem = NULL THEN ScopeExit(ScanUnlock(cuda_mem_map_mutex, d), d)
            ELSE ScanUnlock(cuda_mem_map_mutex, d)
       /\ last' = <<[ev |-> "thread_scan", dev |-> d, mem |-> max.mem,
                      holder |-> cuda_mem_map_mutex[d], mover |-> move_mutex]>>
  /\ SameMemory
  /\ UNCHANGED <<move_texture_to_host, any_device_moving_textures_to_host, move_mutex>>

lock_anyway(mutex) == TRUE

\* thread_scoped_lock lock(mutex) returns once no thread holds the mutex.
thread_scoped_lock(mutex) == mutex = 0

\* thread_scoped_lock lock(move_mutex); any_device_moving_textures_to_host = true;
EvictLock(d) ==
  /\ thread[d].pc = "lock"
  /\ ThreadStep
  /\ thread_scoped_lock(move_mutex)
  /\ move_mutex' = d
  /\ any_device_moving_textures_to_host' = TRUE
  /\ thread' = [thread EXCEPT ![d].pc = "move"]
  /\ last' = <<>>
  /\ SameMemory
  /\ UNCHANGED <<move_texture_to_host, cuda_mem_map_mutex>>

\* generic_free and generic_alloc of the devices that handle the copy of o
\* take the map mutex of their device: every one of them is free.
MapMutexesFree(o) ==
  \A i \in DOMAIN CopyOrder(o) : cuda_mem_map_mutex[CopyOrder(o)[i]] = 0

\* max_mem->device_copy_to(); the update of size; the flag is cleared and
\* the locks released at the end of the block.
EvictMove(d) ==
  /\ thread[d].pc = "move"
  /\ ThreadStep
  /\ MapMutexesFree(thread[d].max.mem)
  /\ \E af \in BOOLEAN, hf \in BOOLEAN :
       \E S \in {device_copy_to(
                   Log([State(af, hf) EXCEPT !.moves = 1],
                       [ev |-> "thread_move", dev |-> d, mem |-> thread[d].max.mem,
                        size |-> thread[d].max.size, remaining |-> thread[d].size,
                        holder |-> move_mutex,
                        tracked |-> thread[d].max.mem \in DOMAIN cuda_mem_map[d],
                        resident |-> is_resident(d, thread[d].max.mem),
                        mapped |-> MapGet([cuda_mem_map |-> cuda_mem_map], d,
                                          thread[d].max.mem).use_mapped_host,
                        ptr |-> device_pointer[d][thread[d].max.mem],
                        dsize |-> device_size[d][thread[d].max.mem],
                        others |-> {e \in Dev \ {d} : thread[e].pc = "move"}]),
                   d, thread[d].max.mem)} :
         CommitMemory([S EXCEPT !.any_device_moving_textures_to_host = FALSE])
  /\ thread' = [thread EXCEPT
                  ![d].size = SizeLeft(@, thread[d].max.size),
                  ![d].pc = "loop"]
  /\ move_mutex' = IF move_mutex = d THEN 0 ELSE move_mutex
  /\ cuda_mem_map_mutex' = ScopeExit(cuda_mem_map_mutex, d)

\* Another thread of the caller frees, on device d, the allocation that the
\* thread of d has selected and not yet moved; mem_free takes the map mutex.
CallerFree(d) ==
  /\ thread[d].pc = "lock"
  /\ ThreadStep
  /\ thread[d].max.mem \in DOMAIN cuda_mem_map[d]
  /\ cuda_mem_map_mutex[d] = 0
  /\ \E S \in {mem_free(State(FALSE, FALSE), d, thread[d].max.mem)} :
       CommitMemory(Log(S, [ev |-> "caller_free", dev |-> d,
                            mem |-> thread[d].max.mem]))
  /\ UNCHANGED evictvars

\* The upload of a dirty table takes the map mutex of the device.
TableMutexFree(d) == need_texture_info[d] => cuda_mem_map_mutex[d] = 0

\* move_texture_to_host = false; load_texture_info();
EvictExit(d) ==
  /\ thread[d].pc = "exit"
  /\ ThreadStep
  /\ TableMutexFree(d)
  /\ \E af \in BOOLEAN, hf \in BOOLEAN :
       \E S \in {load_texture_info(
                   [State(af, hf) EXCEPT !.move_texture_to_host[d] = FALSE], d)} :
         CommitMemory(S)
  /\ thread' = [thread EXCEPT ![d].pc = "done"]
  /\ UNCHANGED <<move_mutex, cuda_mem_map_mutex>>

NextEvict ==
  \/ \E d \in Dev, o \in Mem : EvictFill(d, o)
  \/ \E d \in Dev, size \in EvictSizes, for_texture \in BOOLEAN :
       EvictCall(d, size, for_texture)
  \/ \E d \in Dev : EvictEnter(d)
  \/ \E d \in Dev : EvictLoop(d)
  \/ \E d \in Dev : EvictScan(d)
  \/ \E d \in Dev : EvictLock(d)
  \/ \E d \in Dev : CallerFree(d)
  \/ \E d \in Dev : EvictMove(d)
  \/ \E d \in Dev : EvictExit(d)

SpecEvict == InitEvict /\ [][NextEvict]_vars

\* ------------------------------------------------------------------ claims
\* What the last handler did, by kind.
Events(kind) == {last[i] : i \in {j \in DOMAIN last : last[j].ev = kind}}
AllocOk == {e \in Events("alloc") : e.ret} \cup Events("alloc_array")

C4_HostBudget == \A d \in Dev : map_host_used[d] <= map_host_limit[d]

\* The devices holding a host-mapped record of descriptor o.
HostMappers(o) ==
  {d \in Dev : o \in DOMAIN cuda_mem_map[d] /\ cuda_mem_map[d][o].use_mapped_host}

\* C5: a pinned host region is released exactly by the free that brings
\* shared_counter to 0, when no other device holds a host-mapped record of
\* it; a free that leaves such a record on another device leaves the region
\* allocated, and while a device holds such a record the region is allocated.
C5_SharedRelease ==
  /\ \A e \in Events("free") :
       /\ e.released <=> (e.mapped /\ e.counter = 0)
       /\ e.released => e.others = {}
       /\ (e.mapped /\ e.others # {}) => e.still
  /\ \A o \in Obj : HostMappers(o) # {} => (pinned[o] /\ shared_pointer[o] = PINNED)

\* A device frees its host-mapped allocation while another device still
\* holds one of the same region.
C5_Witness ==
  \E e \in Events("free") :
    e.mapped /\ ~e.released /\ e.others # {} /\ e.still /\ e.counter = 1

\* The last device frees it.
C5_WitnessRelease ==
  /\ \E e \in Events("free") : e.released /\ e.dev = 1
  /\ \E o \in Mem : shared_counter[o] = 0 /\ ~pinned[o]
                     /\ \A d \in Dev : device_pointer[d][o] = NULL
  /\ multi = Idle /\ ~island

\* C6: the allocation moved in an iteration of move_textures_to_host is
\* eligible, is an image if any eligible allocation is an image, and no
\* eligible allocation of its class is larger.
C6_LargestImageFirst ==
  \A e \in Events("move") :
    /\ \E c \in e.eligible : c.mem = e.mem /\ c.size = e.size /\ c.image = e.image
    /\ (\E c \in e.eligible : c.image) => e.image
    /\ \A c \in e.eligible : c.image = e.image => c.size <= e.size

C6_Witness ==
  \E e \in Events("move") :
    /\ e.image
    /\ \E c \in e.eligible : ~c.image /\ c.size > e.size

C6_WitnessSize ==
  \E e \in Events("move") : \E c \in e.eligible : c.image = e.image /\ c.size < e.size

\* The descriptors device d is handed: its own texture_info, the memory
\* resident on it, and the textures of the peer devices of its island.
Handed(d, o) ==
  \/ o = TI(d)
  \/ o \in Mem /\ (is_resident(d, o) \/ MemType(o) = "MEM_TEXTURE")

C8_CopyNoOpZeroAllocates ==
  /\ \A d \in Dev, o \in Obj :
       ((o \in Mem \/ o = TI(d))
        /\ (host_pointer[o] = NULL \/ device_pointer[Holder(d, o)][o] = NULL))
         => generic_copy_to(State(FALSE, FALSE), d, o) = State(FALSE, FALSE)
  /\ \A z \in Events("mem_zero") :
       ~z.allocated =>
         /\ \E a \in Events("alloc") : a.dev = z.dev /\ a.mem = z.mem
         /\ \A a \in Events("alloc") :
              (a.dev = z.dev /\ a.mem = z.mem) =>
                IF a.ret
                  THEN /\ \E i \in DOMAIN last :
                            /\ last[i].ev = "zero"
                            /\ last[i].target # "none"
                            /\ last[i].msize = z.msize
                            /\ \A j \in (i + 1)..Len(last) : last[j].ev = "unlock"
                       /\ z.mem \in DOMAIN cuda_mem_map[z.dev]
                  ELSE /\ Events("zero") = {}
                       /\ z.mem \notin DOMAIN cuda_mem_map[z.dev]

C8_Witness ==
  /\ \E z \in Events("mem_zero") : ~z.allocated
  /\ \E e \in Events("zero") : e.target = "host"
  /\ \E o \in Mem : host_pointer[o] = PINNED

C8_WitnessFail ==
  /\ \E z \in Events("mem_zero") : ~z.allocated
  /\ \E a \in Events("alloc") : ~a.ret

C8_WitnessNoHost ==
  \E d \in Dev, o \in Mem : host_pointer[o] = NULL /\ device_pointer[d][o] # NULL

\* Lexicographic order of capability levels.
LevelLE(a, b) == a[1] < b[1] \/ (a[1] = b[1] /\ a[2] <= b[2])

\* Two requests for the same kernel from the same source; with the same
\* flags; with flags that differ in the build options or in the environment.
SameKernel(a, b) ==
  a.name = b.name /\ a.force_ptx = b.force_ptx /\ a.source_md5 = b.source_md5
SameFlags(a, b) ==
  /\ a.adaptive = b.adaptive
  /\ (a.adaptive => a.opts = b.opts)
  /\ a.extra = b.extra
OneFlagDiffers(a, b) ==
  /\ a.adaptive = b.adaptive
  /\ \/ a.extra # b.extra /\ (a.adaptive => a.opts = b.opts)
     \/ a.adaptive /\ a.opts # b.opts /\ a.extra = b.extra

C9_WitnessDiffers ==
  /\ kernel_last.called /\ kernel_last.kind = "compiled" /\ nreq = 2
  /\ Cardinality({f \in files : f.dir = "cache"}) = 2

\* C10: without adaptive compilation the levels probed for a PTX start at
\* the capability of the device, go down one level at a time (minor first,
\* then minor 9 of the next lower major), stay at major 3 or above and at or
\* below the capability of the device; the PTX returned is the highest
\* existing one among those levels, and one is returned if one exists.
C10_PtxProbes ==
  (kernel_last.called /\ ~kernel_last.req.adaptive /\ kernel_last.kind # "lib_cubin") =>
    LET p == kernel_last.probes
        name == kernel_last.req.name
        exists == {l \in (3..major) \X (0..9) :
                     LevelLE(l, <<major, minor>>)
                     /\ LibPtx(name, l[1], l[2]) \in kernel_last.before}
    IN /\ major >= 3 => (p # <<>> /\ p[1] = <<major, minor>>)
       /\ major < 3 => p = <<>>
       /\ \A i \in DOMAIN p : p[i][1] >= 3 /\ LevelLE(p[i], <<major, minor>>)
       /\ \A i \in 1..(Len(p) - 1) :
            \/ p[i][2] > 0 /\ p[i + 1] = <<p[i][1], p[i][2] - 1>>
            \/ p[i][2] = 0 /\ p[i + 1] = <<p[i][1] - 1, 9>>
       /\ kernel_last.kind = "lib_ptx" <=> exists # {}
       /\ kernel_last.kind = "lib_ptx" =>
            /\ kernel_last.result = LibPtx(name, p[Len(p)][1], p[Len(p)][2])
            /\ p[Len(p)] \in exists
            /\ \A l \in exists : LevelLE(l, p[Len(p)])

C10_Witness ==
  /\ kernel_last.called /\ kernel_last.kind = "lib_ptx"
  /\ major = 7 /\ minor = 5
  /\ Len(kernel_last.probes) > 1
  /\ LibPtx("kernel", 8, 0) \in files /\ LibPtx("kernel", 5, 2) \in files

C10_WitnessNone ==
  /\ kernel_last.called /\ ~kernel_last.req.adaptive
  /\ major = 7 /\ kernel_last.kind = "compiled"
  /\ Len(kernel_last.probes) > 40

\* C11: once a kernel module is loaded on a device, a load_kernels call on
\* that device returns true, does not resolve, compile or load a kernel,
\* and leaves the module and the files as they are.
C11_LoadOnce ==
  [][\A d \in Dev :
       cuModule[d] # 0 =>
         /\ cuModule'[d] = cuModule[d]
         /\ \A e \in {x \in Events("load")' : x.dev = d} :
              /\ e.ret /\ e.after = e.before
              /\ ~e.did.called /\ ~e.did.compiled /\ ~e.loaded
              /\ files' = files]_vars

\* A second load_kernels call on a loaded device, asking for other features.
C11_Witness ==
  \E e \in Events("load") :
    /\ e.before # 0 /\ e.ret
    /\ cuModule[e.dev] = e.before
    /\ nreq = 2

\* The check_peer_access call of the last step, and the enable-peer-access
\* calls it issued.
PeerCalls == Events("peer")
EnableCalls == SelectSeq(last, LAMBDA e : e.ev = "enable")
PeerPreconditions(e) ==
  /\ e.peer # e.dev
  /\ DeviceType(e.peer) \in {"DEVICE_CUDA", "DEVICE_OPTIX"}
  /\ e.drv # "no_access"
  /\ e.drv # "no_array_access"

\* C12: check_peer_access returns false, issues no enable-peer-access call
\* and records no error when the peer is the device itself, is not a CUDA
\* or OptiX device, or the driver reports no peer access or no array
\* access over the link.
C12_PeerRefused ==
  \A e \in PeerCalls :
    ~PeerPreconditions(e) =>
      /\ ~e.ret
      /\ Events("enable") = {}
      /\ error[e.dev] = e.error_before
      /\ peer_access = e.access_before

C12_Witness ==
  \E e \in PeerCalls : e.peer # e.dev /\ e.peer \in Dev /\ e.drv = "no_array_access"

C12_WitnessSelf ==
  \E e \in PeerCalls : e.peer = e.dev /\ e.drv = "ok"

C12_WitnessType ==
  \E e \in PeerCalls : e.peer \notin Dev /\ e.drv = "ok"

\* C13: when the preconditions hold, check_peer_access returns true exactly
\* when peer access was enabled in both directions, this -> peer under the
\* context of this device first, peer -> this under the context of the
\* peer second; a failure records an error and returns false, and the
\* second direction is not attempted after a failure of the first.
C13_PeerSymmetric ==
  \A e \in PeerCalls :
    PeerPreconditions(e) =>
      LET calls == EnableCalls
          there == [from |-> e.dev, to |-> e.peer]
          back == [from |-> e.peer, to |-> e.dev]
          Is(c, dir, ctx) == /\ c.from = dir.from /\ c.to = dir.to
                             /\ c.current # <<>>
                             /\ c.current[Len(c.current)] = ctx
      IN /\ Len(calls) \in {1, 2}
         /\ Is(calls[1], there, cuContext[e.dev])
         /\ Len(calls) = 2 <=> calls[1].ok
         /\ Len(calls) = 2 => Is(calls[2], back, cuContext[e.peer])
         /\ e.ret <=> (Len(calls) = 2 /\ calls[1].ok /\ calls[2].ok)
         /\ e.ret => {<<e.dev, e.peer>>, <<e.peer, e.dev>>} \subseteq peer_access
         /\ e.ret => error[e.dev] = e.error_before
         /\ ~e.ret => error[e.dev]
         /\ \A i \in DOMAIN calls :
              ~calls[i].ok => <<calls[i].from, calls[i].to>> \notin
                                (peer_access \ e.access_before)

C13_Witness ==
  \E e \in PeerCalls : e.ret /\ {<<1, 2>>, <<2, 1>>} \subseteq peer_access

C13_WitnessSecondFails ==
  \E e \in PeerCalls :
    /\ ~e.ret /\ e.drv = "second_fails" /\ PeerPreconditions(e)
    /\ <<e.dev, e.peer>> \in peer_access /\ <<e.peer, e.dev>> \notin peer_access

\* The events of the last step that record the context stack at the time.
ScopedEvents == Events("alloc") \cup Events("alloc_array") \cup Events("free")
Top(stack) == stack[Len(stack)]

\* C14: no construction leaves a device context on the thread's stack, and
\* every operation leaves the stack as it found it, on every exit path;
\* inside a scope, also a nested one, the context of the device is current.
C14_ContextRestored ==
  /\ \A i \in DOMAIN ctx_stack : ctx_stack[i] \notin Dev
  /\ [][/\ ctx_stack' = ctx_stack
        /\ \A e \in ScopedEvents' :
             /\ Len(e.ctx) > Len(ctx_stack)
             /\ Top(e.ctx) = cuContext[e.dev]
             /\ SubSeq(e.ctx, 1, Len(ctx_stack)) = ctx_stack
        /\ \A e \in Events("load")' :
             e.loaded => e.inside = Append(ctx_stack, cuContext[e.dev])
        /\ \A e \in Events("enable")' :
             e.current = Append(ctx_stack, cuContext[e.from])]_vars

\* A generic_alloc inside tex_alloc: two scopes of the device are open, on
\* top of the context the thread had current.
C14_Witness ==
  /\ ctx_stack = <<ForeignContext>>
  /\ \E e \in Events("alloc") :
       e.ret /\ e.ctx = <<ForeignContext, cuContext[e.dev], cuContext[e.dev]>>

\* An early error return inside a scope.
C14_WitnessError ==
  /\ ctx_stack = <<ForeignContext>>
  /\ \/ \E e \in Events("alloc") : ~e.ret
     \/ \E e \in PeerCalls : e.drv = "first_fails"

C14_WitnessPeer ==
  /\ ctx_stack = <<ForeignContext>>
  /\ \E e \in PeerCalls : e.drv = "second_fails" /\ PeerPreconditions(e)

\* C15: a move_textures_to_host call that finds the process-wide guard set
\* returns before its scan and moves nothing, so no move step runs inside
\* another one.
C15_NoNestedMove ==
  /\ \A e \in Events("evict") : e.guard => (e.nmoves = 0 /\ e.same /\ e.returned)
  /\ \A e \in Events("move") : e.nesting = 1
  /\ ~any_device_moving_textures_to_host

\* The re-allocation of a moved allocation on the other device calls
\* move_textures_to_host while the move is in progress.
C15_Witness ==
  \E e \in Events("evict"), mv \in Events("move") :
    e.guard /\ e.nested /\ e.nmoves = 0 /\ e.dev # mv.dev

\* C16: at most one thread is inside the move step of move_textures_to_host,
\* it holds move_mutex, and a thread that has selected an allocation enters
\* the move step only when no thread holds move_mutex.
C16_OneMover ==
  /\ \A d \in Dev, e \in Dev : thread[d].pc = "move" /\ thread[e].pc = "move" => d = e
  /\ \A d \in Dev : thread[d].pc = "move" <=> move_mutex = d
  /\ [][\A d \in Dev :
          thread[d].pc = "lock" /\ (\E e \in Dev \ {d} : thread[e].pc = "move")
            => thread'[d] = thread[d]]_vars

\* One thread is in its move step and the other has selected an allocation
\* and is at the lock.
C16_Witness ==
  \E d \in Dev, e \in Dev :
    /\ thread[d].pc = "move" /\ thread[e].pc = "lock"
    /\ thread[e].max.mem # NULL

\* The outcomes of compile_kernel in which no kernel is resolved.
CompileFailures == {"no_nvcc", "old_nvcc", "exec_failed", "no_output"}

\* C17: every load_kernels call whose compile_kernel fails (no compiler, a
\* compiler older than 8.0, a failing compile command, no output file) gets
\* an empty path, returns false, and leaves the device's error state set.
C17_FailuresRecorded ==
  \A e \in Events("load") :
    e.did.called /\ e.did.kind \in CompileFailures
      => e.did.result = NoFile /\ e.did.error /\ ~e.ret /\ e.error

\* The levels from floor.0 up to the capability of the device at which lib/
\* held a PTX of the requested kernel before the call.
PtxLevels(floor) ==
  {l \in (floor..major) \X (0..9) :
     LevelLE(l, <<major, minor>>)
     /\ LibPtx(kernel_last.req.name, l[1], l[2]) \in kernel_last.before}

\* The order of precedence of compile_kernel, the PTX being looked for at
\* the levels from floor.0 upwards.
PrecedenceFrom(floor) ==
  kernel_last.called =>
    LET req == kernel_last.req
        F == kernel_last.before
        exact == LibCubin(req.name, major, minor)
        ptxs == PtxLevels(floor)
        cached == kernel_cache_file(req)
    IN /\ IF ~req.adaptive /\ ~req.force_ptx /\ exact \in F
            THEN kernel_last.kind = "lib_cubin" /\ kernel_last.result = exact
          ELSE IF ~req.adaptive /\ ptxs # {}
            THEN /\ kernel_last.kind = "lib_ptx"
                 /\ \E l \in ptxs :
                      /\ kernel_last.result = LibPtx(req.name, l[1], l[2])
                      /\ \A k \in ptxs : LevelLE(k, l)
          ELSE IF cached \in F
            THEN kernel_last.kind = "cache" /\ kernel_last.result = cached
          ELSE kernel_last.kind \in CompileFailures \cup {"compiled"}
       /\ kernel_last.kind \in {"lib_cubin", "lib_ptx", "cache"} =>
            ~kernel_last.compiled /\ files = F
       /\ req.adaptive => kernel_last.result.dir # "lib"
       /\ kernel_last.compiled <=> kernel_last.kind \in {"exec_failed", "no_output", "compiled"}

\* C18 as stated: compile_kernel returns the exact-capability cubin of lib/
\* (adaptive compilation off, PTX not forced), else the nearest PTX of lib/
\* at or below the capability of the device (adaptive compilation off), else
\* the cached build for the hash, and runs the compiler only if none exists.
C18_PrecedenceAnyPtx == PrecedenceFrom(0)

\* C18, amended: the same order, the PTX being the nearest one at or below
\* the capability of the device among the levels 3.0 and above.
C18_Precedence == PrecedenceFrom(3)

\* A forced PTX passes over the exact-capability cubin of lib/.
C18_Witness ==
  /\ kernel_last.called /\ kernel_last.req.force_ptx /\ kernel_last.kind = "lib_ptx"
  /\ LibCubin("kernel", major, minor) \in kernel_last.before

\* The cached build is used when lib/ holds no PTX at 3.0 or above.
C18_WitnessCache ==
  /\ kernel_last.called /\ ~kernel_last.req.adaptive /\ kernel_last.kind = "cache"
  /\ PtxLevels(0) # {} /\ PtxLevels(3) = {}

\* With adaptive compilation the kernels of lib/ are passed over.
C18_WitnessAdaptive ==
  /\ kernel_last.called /\ kernel_last.req.adaptive /\ kernel_last.kind = "compiled"
  /\ LibCubin("kernel", major, minor) \in kernel_last.before

\* The generic_alloc calls of the last handler, by their place in the log.
AllocCalls == {i \in DOMAIN last : last[i].ev = "alloc"}

\* The condition of the specification for an eviction before allocation i.
ShortOfMemory(i) ==
  /\ ~last[i].moving
  /\ ~last[i].image
  /\ last[i].size + last[i].headroom >= last[i].free_before

\* The move_textures_to_host call of allocation i is on its device, for
\* size + headroom - free and for_texture = is_texture.
EvictionRequested(i) ==
  LET e == last[last[i].evict_at]
  IN /\ e.ev = "evict" /\ e.dev = last[i].dev
     /\ e.size = last[i].size + last[i].headroom - last[i].free_before
     /\ e.size >= 0

\* C19 as stated: generic_alloc calls move_textures_to_host exactly when no
\* eviction is in progress on the device, the allocation is not an image and
\* size + headroom >= free, and it asks for size + headroom - free.
C19_EvictExactly ==
  \A i \in AllocCalls :
    /\ last[i].evict_at # 0 <=> ShortOfMemory(i)
    /\ last[i].evict_at # 0 => EvictionRequested(i)

\* C19, amended: exactly when, in addition, the device can map host memory.
C19_EvictExactlyIfMappable ==
  \A i \in AllocCalls :
    /\ last[i].evict_at # 0 <=> (ShortOfMemory(i) /\ can_map_host[last[i].dev])
    /\ last[i].evict_at # 0 => EvictionRequested(i)
    /\ (last[i].image \/ last[i].moving) => last[i].evict_at = 0

\* An allocation that is short of memory asks for a positive size.
C19_Witness ==
  \E i \in AllocCalls :
    /\ last[i].evict_at # 0
    /\ last[last[i].evict_at].size > 0

\* A device that cannot map host memory is short of memory and moves nothing.
C19_WitnessNoHost ==
  \E i \in AllocCalls :
    ShortOfMemory(i) /\ ~can_map_host[last[i].dev] /\ last[i].evict_at = 0

\* An image that is short of memory.
C19_WitnessImage ==
  \E i \in AllocCalls :
    /\ last[i].image /\ ~last[i].moving /\ can_map_host[last[i].dev]
    /\ last[i].size + last[i].headroom >= last[i].free_before

\* An allocation during an eviction on its device that is short of memory.
C19_WitnessMoving ==
  \E i \in AllocCalls :
    /\ last[i].moving /\ ~last[i].image /\ can_map_host[last[i].dev]
    /\ last[i].size + last[i].headroom >= last[i].free_before

\* The calls of move_textures_to_host of the last handler that passed the
\* guard, by the place of their record in the log, and the iterations of the
\* loop of call c: its moves and its exit, in order.
EvictCalls == {i \in DOMAIN last : last[i].ev = "evict" /\ ~last[i].guard}
Iterations(c) ==
  SelectSeq([i \in DOMAIN last |-> i],
            LAMBDA i : last[i].ev \in {"move", "loop_exit"} /\ last[i].call = last[c].call)

\* C20: every move_textures_to_host call ends: its loop starts with the
\* requested size, every iteration but the last moves an allocation while
\* size > 0 and leaves MAX(size - moved size, 0) to the next, the moved
\* allocation is not a candidate in any later iteration, the moves are no
\* more than the candidates of the first iteration, and the loop is left at
\* size 0 or without a candidate.
C20_LoopEnds ==
  \A c \in EvictCalls :
    LET it == Iterations(c)
        n == Len(it)
    IN /\ n >= 1
       /\ last[it[1]].remaining = last[c].size
       /\ last[it[n]].ev = "loop_exit"
       /\ last[it[n]].remaining = 0 \/ last[it[n]].candidates = {}
       /\ \A k \in 1..(n - 1) :
            LET mv == last[it[k]]
                nx == last[it[k + 1]]
            IN /\ mv.ev = "move" /\ mv.dev = last[c].dev
               /\ mv.remaining > 0
               /\ mv.mem \in mv.candidates
               /\ nx.remaining >= 0
               /\ nx.remaining = IF mv.size >= mv.remaining THEN 0
                                 ELSE mv.remaining - mv.size
               /\ \A j \in (k + 1)..n : mv.mem \notin last[it[j]].candidates
       /\ n - 1 <= Cardinality(last[it[1]].candidates)

\* A call that moves two allocations, the second larger than what is left.
C20_Witness ==
  \E c \in EvictCalls :
    LET it == Iterations(c)
    IN /\ Len(it) = 3
       /\ last[it[2]].size > last[it[2]].remaining
       /\ last[it[3]].remaining = 0

\* A call that runs out of candidates with size left.
C20_WitnessNoCandidate ==
  \E c \in EvictCalls :
    LET it == Iterations(c)
    IN /\ Len(it) >= 2
       /\ last[it[Len(it)]].remaining > 0

\* C21: the allocation selected by an iteration of move_textures_to_host is
\* resident on the device, not host-mapped, not backed by an array, not the
\* texture-info table, a texture or a global, and an image (data_height > 1)
\* when the call is on behalf of a texture.
C21_NeverSelected ==
  \A e \in Events("move") :
    /\ e.mem \in DOMAIN e.map
    /\ e.mem \in Mem
    /\ ~island \/ owner[e.mem] = e.dev
    /\ ~e.map[e.mem].use_mapped_host
    /\ ~e.map[e.mem].array
    /\ shape[e.mem].type \in {"MEM_TEXTURE", "MEM_GLOBAL"}
    /\ e.for_texture => shape[e.mem].h > 1

\* A call on behalf of a texture moves an image while the device holds, in
\* device memory, a texture that is not an image.
C21_Witness ==
  \E e \in Events("move") :
    /\ e.for_texture
    /\ \E o \in DOMAIN e.map \cap Mem :
         /\ shape[o].type \in {"MEM_TEXTURE", "MEM_GLOBAL"} /\ shape[o].h <= 1
         /\ ~e.map[o].use_mapped_host /\ ~e.map[o].array

\* A move while the device holds an array, a host-mapped allocation, the
\* texture-info table or a buffer.
C21_WitnessArray ==
  \E e \in Events("move") : \E o \in DOMAIN e.map : e.map[o].array
C21_WitnessMapped ==
  \E e \in Events("move") : \E o \in DOMAIN e.map : e.map[o].use_mapped_host
C21_WitnessTable ==
  \E e \in Events("move") : \E o \in DOMAIN e.map : o \notin Mem
C21_WitnessBuffer ==
  \E e \in Events("move") :
    \E o \in DOMAIN e.map \cap Mem :
      shape[o].type = "MEM_READ_WRITE" /\ ~e.map[o].use_mapped_host
C21_WitnessPeer ==
  \E e \in Events("move") : \E o \in DOMAIN e.map \cap Mem : owner[o] # e.dev /\ island

\* The 3D textures a device holds as their owner.
Volumes(d) ==
  {o \in Mem \cap DOMAIN cuda_mem_map[d] :
     shape[o].depth > 1 /\ (~island \/ owner[o] = d)}

\* C22: a 3D texture held by its owning device is backed by an array and
\* not by mapped host memory; generic_alloc never allocates a 3D texture
\* and move_textures_to_host never moves one.
C22_VolumeInArray ==
  /\ \A d \in Dev : \A o \in Volumes(d) :
       /\ cuda_mem_map[d][o].array
       /\ ~cuda_mem_map[d][o].use_mapped_host
       /\ device_pointer[d][o] = ARRAYPTR
  /\ \A e \in Events("alloc") \cup Events("move") :
       e.mem \in Mem => shape[e.mem].depth <= 1
  /\ \A e \in Events("alloc_array") : shape[e.mem].depth > 1

\* A device holds a 3D texture after a handler that moved another of its
\* allocations to host memory.
C22_Witness ==
  \E d \in Dev :
    /\ Volumes(d) # {}
    /\ \E e \in Events("move") : e.dev = d /\ Volumes(d) \subseteq DOMAIN e.map

\* The moves of the last handler, and the frees and generic_alloc calls of
\* the moved allocation on its device that follow move i in the log.
MoveSteps == {i \in DOMAIN last : last[i].ev = "move"}
After(i, kind) ==
  {j \in DOMAIN last : j > i /\ last[j].ev = kind
                       /\ last[j].mem = last[i].mem /\ last[j].dev = last[i].dev}
First(idx) == CHOOSE j \in idx : \A k \in idx : j <= k

\* C23 as stated: the record of an allocation that is moved to host memory
\* stays in the allocation map, during the move and after it.
C23_RecordKept ==
  \A i \in MoveSteps :
    /\ \A j \in After(i, "free") : last[j].tracked
    /\ last[i].mem \in DOMAIN cuda_mem_map[last[i].dev]

\* C23, amended: the move frees the allocation, which erases its record,
\* and allocates it again while move_texture_to_host is set; the allocation
\* gets a new record backed by mapped host memory, or, if no host memory is
\* to be had, no record and no device pointer, and the error is recorded.
C23_RecordReplaced ==
  \A i \in MoveSteps :
    /\ After(i, "free") # {} /\ After(i, "alloc") # {}
    /\ LET f == last[First(After(i, "free"))]
           a == last[First(After(i, "alloc"))]
           d == last[i].dev
           o == last[i].mem
       IN /\ First(After(i, "free")) < First(After(i, "alloc"))
          /\ ~f.tracked /\ f.ptr = NULL
          /\ a.moving /\ ~a.in_device
          /\ a.ret => /\ a.tracked /\ a.mapped
                      /\ o \in DOMAIN cuda_mem_map[d]
                      /\ cuda_mem_map[d][o].use_mapped_host
          /\ ~a.ret => /\ ~a.tracked
                       /\ o \notin DOMAIN cuda_mem_map[d]
                       /\ device_pointer[d][o] = NULL
                       /\ error[d]

\* A moved allocation whose allocation in host memory fails.
C23_Witness ==
  \E i \in MoveSteps :
    /\ After(i, "alloc") # {}
    /\ ~last[First(After(i, "alloc"))].ret
    /\ last[i].mem \notin DOMAIN cuda_mem_map[last[i].dev]

\* A moved allocation that is host-mapped afterwards.
C23_WitnessMapped ==
  \E i \in MoveSteps :
    /\ last[i].mem \in DOMAIN cuda_mem_map[last[i].dev]
    /\ cuda_mem_map[last[i].dev][last[i].mem].use_mapped_host

\* The generic_alloc calls that ended in mapped host memory.
MappedAllocs == {e \in Events("alloc") : e.ret /\ e.mapped}

\* C24: a host-mapped allocation without padding and outside an eviction
\* of a descriptor with a host pointer ends with host_pointer equal to
\* shared_pointer, the caller's buffer being released if it was another
\* one; with padding or during an eviction host_pointer is as before,
\* nothing is released and shared_pointer is set.
C24_HostPointerConverges ==
  \A e \in MappedAllocs :
    /\ e.shared_after # NULL
    /\ (e.padding = 0 /\ ~e.moving /\ e.host_before # NULL) =>
         /\ e.host_after = e.shared_after
         /\ e.host_freed <=> e.host_before # e.shared_after
    /\ (e.padding # 0 \/ e.moving) =>
         /\ e.host_after = e.host_before
         /\ ~e.host_freed

\* The caller's buffer is replaced by the pinned region.
C24_Witness ==
  \E e \in MappedAllocs :
    /\ e.padding = 0 /\ ~e.moving /\ e.host_before = CALLER
    /\ e.host_freed /\ e.host_after = PINNED

\* A padded texture in mapped host memory keeps the caller's buffer.
C24_WitnessPadded ==
  \E e \in MappedAllocs : e.padding # 0 /\ ~e.moving /\ e.host_after = CALLER

\* An allocation moved to host memory keeps the caller's buffer.
C24_WitnessMoving ==
  \E e \in MappedAllocs : e.padding = 0 /\ e.moving /\ e.host_after = CALLER

\* The second device finds the host pointer replaced already.
C24_WitnessAdopted ==
  \E e \in MappedAllocs :
    e.padding = 0 /\ ~e.moving /\ e.host_before = PINNED /\ ~e.host_freed

\* C25: load_texture_info terminates, also when its upload triggers an
\* eviction that calls load_texture_info again: a call with the flag clear
\* changes nothing (so a nested call with the flag clear uploads nothing), the
\* flag is already clear when the upload of the table starts, and the calls
\* are nested no deeper than the number of allocations that can be moved.
C25_FlushTerminates ==
  /\ \A e \in Events("flush") :
       /\ ~e.dirty => e.same
       /\ e.depth <= NMem
  /\ \A e \in Events("alloc") : e.mem = TI(e.dev) => ~e.dirty
  /\ \A e \in Events("copy") : e.mem = TI(e.dev) => ~e.dirty

\* An upload of the table triggers an eviction, which calls
\* load_texture_info again with the flag clear.
C25_Witness ==
  \E e, f \in Events("flush"), a \in Events("alloc") :
    /\ e.dirty /\ e.depth = 0
    /\ a.mem = TI(e.dev) /\ a.dev = e.dev /\ a.moved /\ a.flushes = 1
    /\ f.dev = e.dev /\ f.depth = 1 /\ ~f.dirty /\ f.same /\ f.at > e.at

\* The allocations that the move_textures_to_host call starting at log
\* position c on device d has re-allocated in mapped host memory.
MovedToHost(d, c) ==
  {a \in Events("alloc") : a.dev = d /\ a.call = c /\ a.moving /\ a.ret /\ a.mapped}

\* The calls of move_textures_to_host that got past the guard, as positions
\* of their events in the log; the flush of a call is logged just before.
EvictCallsAt == {i \in DOMAIN last : last[i].ev = "evict" /\ ~last[i].guard}

\* A call with the flag clear outside any upload.
C25_WitnessClear ==
  \E e \in Events("flush") : ~e.dirty /\ e.depth = 0 /\ e.same


\* C26 (as stated): a move_textures_to_host call that moved an allocation,
\* texture or global buffer, to host memory uploads the slot table before it
\* returns, with move_texture_to_host already false.
C26_TableUploaded ==
  \A i \in EvictCallsAt :
    MovedToHost(last[i].dev, last[i].call) # {} =>
      /\ last[i - 1].ev = "flush" /\ last[i - 1].dev = last[i].dev
      /\ ~last[i - 1].moving
      /\ last[i - 1].uploaded

\* C26 (amended): every such call ends with load_texture_info, run with
\* move_texture_to_host false.  When the call moved a MEM_TEXTURE the table is
\* dirty: it is allocated again with move_texture_to_host false, and copied
\* when memory was obtained for it and it still has a host buffer.  When the
\* table is not dirty, as after a call that moved only global buffers,
\* nothing is uploaded and nothing changes.
C26_TableUploadedIfDirty ==
  \A i \in EvictCallsAt :
    LET e == last[i]
        f == last[i - 1]
        moved == MovedToHost(e.dev, e.call)
    IN /\ f.ev = "flush" /\ f.dev = e.dev /\ ~f.moving
       /\ (\E a \in moved : shape[a.mem].type = "MEM_TEXTURE") => f.dirty
       /\ f.dirty => f.realloc /\ (f.uploaded <=> (f.table # NULL /\ f.host # NULL))
       /\ ~f.dirty => ~f.uploaded /\ ~f.realloc /\ f.same

\* A call that moved a texture and uploaded the table into device memory.
C26_Witness ==
  \E i \in EvictCallsAt :
    /\ \E a \in MovedToHost(last[i].dev, last[i].call) :
         shape[a.mem].type = "MEM_TEXTURE"
    /\ last[i - 1].dirty /\ last[i - 1].uploaded /\ last[i - 1].table = DEVPTR

\* A call that moved a global buffer and uploaded nothing.
C26_WitnessGlobal ==
  \E i \in EvictCallsAt :
    /\ \E a \in MovedToHost(last[i].dev, last[i].call) :
         shape[a.mem].type = "MEM_GLOBAL"
    /\ ~last[i - 1].dirty /\ ~last[i - 1].uploaded

\* A call that moved a texture and could not allocate the table.
C26_WitnessNoTable ==
  \E i \in EvictCallsAt :
    /\ MovedToHost(last[i].dev, last[i].call) # {}
    /\ last[i - 1].dirty /\ ~last[i - 1].uploaded /\ last[i - 1].table = NULL

\* The frees of the last handler for a texture that is not resident on the
\* device that frees it.
PeerFrees ==
  {e \in Events("free") :
     e.mem \in Mem /\ shape[e.mem].type = "MEM_TEXTURE"
     /\ island /\ owner[e.mem] # e.dev}

\* C27: tex_free on a texture owned by a peer device erases this device's
\* record, and with it the bindless texture object, and changes nothing
\* else: the device memory, the array, the pinned host memory, the memory
\* statistics, map_host_used, shared_counter and the descriptor stay as
\* they were, and so do the records of the other devices.
C27_PeerFreeOnlyErases ==
  \A e \in PeerFrees :
    /\ e.path = "peer"
    /\ e.only_map
    /\ ~e.tracked
    /\ e.ptr = e.ptr_before /\ e.dsize = e.dsize_before
    /\ ~e.released

\* A peer device with a bindless texture object frees a texture that its
\* owner still holds.
C27_Witness ==
  \E e \in PeerFrees :
    /\ e.texobject /\ e.only_map /\ e.ptr # NULL
    /\ Tracked([cuda_mem_map |-> cuda_mem_map], owner[e.mem], e.mem)
    /\ stats > 0

\* C28: shared_counter is the number of host-mapped records of the
\* descriptor over all devices, shared_pointer is set exactly while it is
\* positive, an allocation that ends in mapped host memory adds one and a
\* free of a host-mapped record takes one away.
C28_CounterCountsMappers ==
  /\ \A o \in Obj :
       /\ shared_counter[o] = Cardinality(HostMappers(o))
       /\ shared_pointer[o] # NULL <=> shared_counter[o] > 0
       /\ shared_counter[o] >= 0
  /\ \A e \in Events("alloc") :
       e.counter_after = e.counter_before + (IF e.ret /\ e.mapped THEN 1 ELSE 0)
  /\ \A e \in Events("free") :
       e.counter = e.counter_before - (IF e.mapped THEN 1 ELSE 0)

\* Two devices hold host-mapped records of one descriptor, and one of them
\* is freed.
C28_Witness ==
  \E o \in Mem :
    /\ shared_counter[o] = 1 /\ Cardinality(HostMappers(o)) = 1
    /\ \E e \in Events("free") :
         e.mem = o /\ e.mapped /\ e.counter_before = 2 /\ e.counter = 1

\* Two devices hold host-mapped records of one descriptor.
C28_WitnessTwo ==
  \E o \in Mem, e \in Events("alloc") :
    /\ shared_counter[o] = 2 /\ Cardinality(HostMappers(o)) = 2
    /\ e.mem = o /\ e.mapped /\ e.counter_before = 1 /\ e.counter_after = 2

GenericCopies ==
  {e \in Events("copy_to") : MemType(e.mem) \notin {"MEM_TEXTURE", "MEM_GLOBAL"}}

C29_WitnessFailed ==
  \E e \in GenericCopies :
    /\ e.ptr = NULL /\ e.size > 0
    /\ e.twice = [e.once EXCEPT !.stats = @ + e.size]

\* A global buffer that the first call left in mapped host memory is moved
\* to device memory by the second.
C29_WitnessGlobal ==
  \E e \in Events("copy_to") :
    /\ MemType(e.mem) = "MEM_GLOBAL" /\ e.ptr # NULL
    /\ e.mem \in e.once.mapped[e.dev]
    /\ e.mem \in e.twice.present[e.dev] \ e.twice.mapped[e.dev]

\* C30: every lookup, insert and erase on the map of a device is made with
\* the map mutex of that device held, the mutex is never taken by a thread
\* that holds it, and every release is of a mutex that is held.
C30_MapUnderMutex ==
  /\ Events("bare") = {}
  /\ Events("relock") = {}
  /\ \A e \in Events("unlock") : e.held /\ e.ops > 0

\* tex_free releases the mutex and generic_free takes it again; the scan of
\* move_textures_to_host releases it before the allocation it selected is
\* freed and allocated again.
C30_Witness ==
  \E t, g, sc, a \in Events("unlock") :
    /\ t.site = "tex_free" /\ g.site = "generic_free"
    /\ g.dev = t.dev /\ g.at > t.at
    /\ sc.site = "scan" /\ a.site = "generic_alloc" /\ a.dev = sc.dev /\ a.at > sc.at
    /\ Events("move") # {}

\* A thread that is inside move_textures_to_host.
Active(d) == thread[d].pc \in {"enter", "loop", "scan", "lock", "move", "exit"}

\* The next step of the thread of device d is not blocked on a mutex.
CanStep(d) ==
  CASE thread[d].pc \in {"enter", "scan"} -> TRUE
    [] thread[d].pc = "loop" -> MapMutexFree(d)
    [] thread[d].pc = "lock" -> thread_scoped_lock(move_mutex)
    [] thread[d].pc = "move" -> MapMutexesFree(thread[d].max.mem)
    [] thread[d].pc = "exit" -> TableMutexFree(d)
    [] OTHER -> FALSE

C31_WitnessMove ==
  \E d \in Dev : \E e \in Dev \ {d} :
    /\ thread[d].pc = "lock" /\ ~CanStep(d)
    /\ thread[e].pc = "move" /\ CanStep(e)

\* C32: the allocation a thread moves is, when it moves it, still tracked by
\* the map of its device, resident on the device and not in mapped host
\* memory.
C32_SelectionStillValid ==
  \A e \in Events("thread_move") : e.tracked /\ e.resident /\ ~e.mapped /\ e.ptr # NULL

\* C33: a move_textures_to_host call of a thread that is not inside a move
\* is not ended by the guard while it has memory to free and an allocation it
\* could move.
C33_RequestNotDropped ==
  \A e \in Events("thread_enter") :
    e.guard => (e.mover = e.dev \/ e.size = 0 \/ ~e.eligible)

\* C34: a generic_alloc that finds move_texture_to_host set is inside a
\* move_textures_to_host call of its device, does not allocate device memory
\* and does not call move_textures_to_host; the flag is clear when a call that
\* passed the guard ends, a call ended by the guard leaves it as it was, and
\* it is clear between the requests.
C34_MovingAllocatesOnHost ==
  /\ \A d \in Dev : ~move_texture_to_host[d]
  /\ \A e \in Events("alloc") :
       e.moving => /\ e.call # 0
                   /\ ~e.in_device /\ ~e.moved
                   /\ e.ptr \in {MAPPED, NULL}
                   /\ (e.ret => e.mapped)
  /\ \A e \in Events("evict") :
       IF e.guard THEN e.moving_after = e.moving_before /\ ~e.moving_before
       ELSE ~e.moving_after

\* During a move the allocation is allocated again in mapped host memory
\* although the device has room for it, and the re-allocation on the other
\* device calls move_textures_to_host, which the guard ends.
C34_Witness ==
  /\ \E e \in Events("alloc") :
       e.moving /\ e.ret /\ e.mapped /\ e.size + e.headroom < e.free_before
  /\ \E e \in Events("evict") : e.guard

\* During a move the re-allocation fails: no host memory is obtained.
C34_WitnessFail ==
  \E e \in Events("alloc") : e.moving /\ ~e.ret /\ e.ptr = NULL

\* C35: a descriptor whose device_pointer is 0 on a device has device_size 0
\* there, and a generic_alloc that obtained no memory leaves both at 0.
C35_NullPointerZeroSize ==
  /\ \A d \in Dev, o \in Obj : device_pointer[d][o] = NULL => device_size[d][o] = 0
  /\ \A e \in Events("alloc") : ~e.ret => (e.ptr = NULL /\ e.dsize = 0)

\* The sum of F[1] .. F[n].
RECURSIVE SumTo(_, _)
SumTo(F, n) == IF n = 0 THEN 0 ELSE F[n] + SumTo(F, n - 1)

\* The sum of device_size over the allocations the devices track and own.
LiveSize ==
  SumTo([d \in Dev |->
           SumTo([o \in Obj |-> IF o \in DOMAIN cuda_mem_map[d] /\ is_resident(d, o)
                                  THEN device_size[d][o] ELSE 0],
                 NMem + NDev)],
        NDev)

\* C36: the memory statistic is the sum of device_size over the live
\* allocations of the devices; a generic_alloc adds device_size when it
\* succeeds and nothing when it fails.
C36_StatsMatchLive ==
  /\ stats = LiveSize
  /\ \A e \in Events("alloc") : e.charged = (IF e.ret THEN e.dsize ELSE 0)

\* C37: with system RAM R > 0 the limit leaves at least min(R / 2, default
\* limit) of the RAM unpinned and is at most R; with R = 0 the limit is 0;
\* and on a device whose limit is 0 no generic_alloc pins new host memory.
C37_HostLimit ==
  /\ \A d \in Dev :
       can_map_host[d] =>
         /\ system_ram > 0 =>
              /\ 2 * (system_ram - map_host_limit[d])
                   >= (IF system_ram < 2 * DefaultLimit THEN system_ram
                       ELSE 2 * DefaultLimit)
              /\ map_host_limit[d] <= system_ram
         /\ system_ram = 0 => map_host_limit[d] = 0
  /\ \A e \in Events("alloc") :
       map_host_limit[e.dev] = 0 => ~(e.mapped /\ ~e.had_shared)

\* The system RAM is unknown; an allocation that does not fit the device and
\* that the driver would serve from host memory fails.
C37_Witness ==
  /\ system_ram = 0
  /\ \E e \in Events("alloc") :
       can_map_host[e.dev] /\ ~e.in_device /\ ~e.host_fail /\ ~e.ret

\* More than twice the default limit of RAM: the limit is the RAM less the
\* default limit, and host memory is pinned.
C37_WitnessLarge ==
  /\ system_ram \div 2 > DefaultLimit
  /\ \A d \in Dev : map_host_limit[d] = system_ram - DefaultLimit
  /\ \E e \in Events("alloc") : e.mapped /\ ~e.had_shared

\* An odd amount of RAM below twice the default limit.
C37_WitnessOdd ==
  /\ system_ram % 2 = 1 /\ system_ram \div 2 <= DefaultLimit
  /\ \E e \in Events("alloc") : e.mapped /\ ~e.had_shared

\* ------------------------------------------- render passes and curve pen
\* The devices as constructed, for the models in which no device request
\* is made.
InitEditors ==
  /\ InitDevices(<<1, 2, 3>>, PlainMachine)
  /\ Constructed([d \in Dev |-> "ok"], <<>>)
  /\ major = 0
  /\ minor = 0
  /\ files = {}
  /\ kernel_last = NoRequest
  /\ nreq = 0

EditorsOnly == UNCHANGED <<cfgvars, memvars, kvars, devvars, evictvars>>

\* A function of RenderPasses is called; init is called first, with any
\* set of passes.
PassesStart(op, passes) ==
  /\ render_passes.op = "none"
  /\ ~render_passes.crashed
  /\ op = "init" \/ render_passes.inited
  /\ render_passes' = PassesCall(render_passes, op, passes)
  /\ UNCHANGED pen
  /\ EditorsOnly

\* One pass of the loop. A body that dereferences a null film is undefined:
\* the process stops there or goes on.
PassesStep ==
  /\ render_passes.op # "none"
  /\ ~render_passes.crashed
  /\ render_passes.current_ # IteratorEnd
  /\ \E rp \in BOOLEAN, crash \in BOOLEAN :
       /\ render_passes.op = "read_result" \/ rp
       /\ \E R \in {PassesBody(render_passes, rp)} :
            /\ crash => (R.null_film /\ ~render_passes.null_film)
            /\ render_passes' = [R EXCEPT !.crashed = crash]
  /\ UNCHANGED pen
  /\ EditorsOnly

PassesEnd ==
  /\ render_passes.op # "none"
  /\ ~render_passes.crashed
  /\ render_passes.current_ = IteratorEnd
  /\ render_passes' = PassesReturn(render_passes)
  /\ UNCHANGED pen
  /\ EditorsOnly

NextPasses ==
  \/ \E passes \in 0..(IteratorEnd - 1) : PassesStart("init", passes)
  \/ \E op \in PassesOps \ {"init"} : PassesStart(op, RENDERPASS_NONE)
  \/ PassesStep
  \/ PassesEnd

SpecPasses == InitEditors /\ [][NextPasses]_vars

\* The operator is invoked while it is not running.
PenInvoke(event) ==
  /\ ~pen.handler
  /\ pen' = curve_pen_invoke(pen, event)
  /\ UNCHANGED render_passes
  /\ EditorsOnly

\* An event reaches the modal handler of the running operator.
PenModal(event) ==
  /\ pen.handler
  /\ pen' = modal_handler(pen, event)
  /\ UNCHANGED render_passes
  /\ EditorsOnly

NextPen ==
  \/ \E event \in PenEvents : PenInvoke(event)
  \/ \E event \in PenEvents : PenModal(event)

SpecPen == InitEditors /\ [][NextPen]_vars

\* The bits of passes, in ascending order.
RECURSIVE BitsFrom(_, _)
BitsFrom(bit, passes) ==
  IF bit >= IteratorEnd THEN <<>>
  ELSE (IF BitAnd(bit, passes) # 0 THEN <<bit>> ELSE <<>>) \o BitsFrom(2 * bit, passes)

\* C38: a loop from begin() to end() runs its body on exactly the passes
\* whose bit is set in enabled_passes_, each once and in ascending order of
\* the bits, and ends for every value of enabled_passes_: the passes visited
\* so far are the enabled passes below the iterator, a finished loop has
\* visited all of them, and no body of sync, end_sync, resolve_viewport or
\* read_result dereferences a null film.
C38_VisitsEnabledPasses ==
  LET R == render_passes
      enabled == BitsFrom(1, R.loop_passes)
  IN /\ R.op # "none" =>
          /\ Len(R.visited) <= Len(enabled)
          /\ R.visited = SubSeq(enabled, 1, Len(R.visited))
          /\ R.current_ = IteratorEnd => R.visited = enabled
     /\ (R.op = "none" /\ R.inited) => R.visited = enabled
     /\ ~R.null_film

\* C39: curve_pen_invoke returns OPERATOR_RUNNING_MODAL for every event,
\* its assertion holds and the modal handler is registered; and
\* curve_pen_modal returns OPERATOR_FINISHED only for the release of the
\* left mouse button, after which the property dragging is false.
C39_InvokeRunsModal ==
  /\ pen.call = "invoke" =>
       /\ pen.ret = "OPERATOR_RUNNING_MODAL"
       /\ ~pen.asserted
       /\ pen.handler
  /\ pen.ret = "OPERATOR_FINISHED" =>
       /\ pen.event.type = "LEFTMOUSE"
       /\ pen.event.val = "KM_RELEASE"
       /\ ~pen.dragging

TypeOK ==
  /\ \A d \in Dev : map_host_used[d] >= 0
  /\ \A d \in Dev : cuda_mem_map_mutex[d] \in {0, d}
  /\ stats \in Int
  /\ \A o \in Obj : shared_counter[o] >= 0

====
